---- MODULE Spec2Model ----
(***************************************************************************)
(* Model of basebot.py: the HeimEndpoint connection manager (connect,      *)
(* close, reconnect, forced reconnect, the retry wrappers of send_raw and  *)
(* recv_raw, the run loop main) and the BotManager supervisor.             *)
(*                                                                         *)
(* Threads are integers.  Thread e, for an endpoint e, is the thread that  *)
(* runs e.main(); the CallerA and CallerB threads call the public methods. *)
(* The endpoint lock is an RLock; every critical section that cannot block *)
(* inside is one step guarded by the lock being free, a section that can   *)
(* block inside (Condition.wait, a call into the manager) is split there.  *)
(***************************************************************************)
EXTENDS Integers, Sequences, FiniteSets, TLC

\* Python's None, for a connection, a lock owner, an endpoint.
None == 0

\* Bounds of the model: endpoints that can exist, Transports that can be
\* made, calls of the caller threads.
MaxEndpoints == 2
MaxTransports == 3
MaxOps == 2
\* HeimEndpoint.retry_count (a configuration value; the code's default is 4).
retry_count == 1

Endpoints == 1..MaxEndpoints
Transports == 1..MaxTransports
CallerA == MaxEndpoints + 1
CallerB == MaxEndpoints + 2
Callers == {CallerA, CallerB}
Threads == Endpoints \cup Callers

VARIABLES
  roomname,     \* roomname[e]: TRUE when a room is configured, FALSE for None
  connection,   \* _connection[e]: the installed Transport, or None
  connecting,   \* _connecting[e]
  lock,         \* lock[e]: the thread that holds e's lock across steps, or None
  waiters,      \* waiters[e]: threads blocked in _conncond.wait(), not yet notified
  manager,      \* manager[e]: the endpoint's manager attribute is set
  finalSeen,    \* finalSeen[e]: handle_close(ok, final=True) has been delivered
  transport,    \* transport[c]: the Transport's state and where it comes from
  bots,         \* BotManager.bots
  shutting_down,\* BotManager._shutting_down
  mgrLock,      \* the thread that holds BotManager.lock across steps, or None
  mgrcfg,       \* BotManager configuration: botcls set, respawn_crashed
  isinst,       \* isinst[e]: e is an instance of the manager's botcls
  exists,       \* exists[e]: the endpoint object has been constructed
  logged_in,    \* _logged_in[e]
  nick_set,     \* _nick_set[e]
  eff_nickname, \* eff_nickname[e]: the confirmed nickname, Absent for None
  session_id,   \* session_id[e]: the endpoint's own session id, Absent for None
  sessionUp,    \* sessionUp[e]: a snapshot-event was dispatched since the last teardown
  nickSeen,     \* nickSeen[e]: a nick-reply was dispatched since the last teardown
  cmdid,        \* cmdid[e]: the number the next command id is made of
  callbacks,    \* callbacks[e]: the ids a reply callback is registered for
  cbruns,       \* cbruns[e][k]: invocations of the callback last registered for id k
  handlers,     \* handlers[e]: packet type (Absent: any) -> handlers, as registered
  logging,      \* logging[e]: "heim", or a LoggingEndpoint "log_off" / "log_on"
  nickname,     \* nickname[e]: TRUE when a nickname is configured
  wire,         \* the packets sent, each with the Transport it went over
  users,        \* a UserList: _list, _by_session_id, _by_agent_id, _by_name
  rosterOps,    \* the calls made on the UserList
  delta,        \* a time difference and what format_delta made of it
  msg,          \* a Message: its content, its caches and the last call on it
  tree,         \* a MessageTree: _messages, _children, _earliest, _latest
  th            \* th[t]: the thread's operation, position and locals

epvars == <<roomname, connection, connecting, lock, waiters, manager, finalSeen>>
supvars == <<bots, shutting_down, mgrLock, mgrcfg, isinst, exists>>
flagvars == <<logged_in, nick_set, eff_nickname, session_id, sessionUp, nickSeen>>
dispvars == <<cmdid, callbacks, cbruns, handlers, logging, nickname, wire>>
rostervars == <<users, rosterOps>>
libvars == <<delta, msg, tree>>
datavars == <<rostervars, libvars>>
sessvars == <<flagvars, dispvars, datavars>>
vars == <<epvars, transport, supvars, sessvars, th>>

\* A key that a frame (a dict) does not have, or None as a string value.
Absent == ""

\* An inbound frame as handle() looks at it: its type and id keys (Absent when
\* missing), whether the payload fields that _postprocess_packet and the
\* handlers read are there, the payload's time and to fields, and the
\* top-level time key (Absent when missing: dict.get gives None).  For the
\* user list: views is the listing of a who-reply or a snapshot-event or the
\* one SessionView of a join-event or part-event, sid the session_id of a
\* nick-event, kind, server_id and server_era the payload of a network-event.
NoFrame == [type |-> Absent, id |-> Absent, data |-> FALSE, time |-> Absent,
            to |-> Absent, top |-> Absent, views |-> <<>>, sid |-> Absent,
            kind |-> Absent, server_id |-> Absent, server_era |-> Absent]

\* An outbound packet; type Absent when the thread sends none.
NoPacket == [type |-> Absent, id |-> Absent, time |-> Absent]

\* The pcs inside _attempt_reconnect's callback (lines 907-909).
AttemptPcs == {"getconn", "getconn_wait", "io", "reconn", "reconn_wait",
               "reconn_make", "reconn_fin"}

\* The pcs inside _disconnect (lines 957-969) and what it calls.
DisconnectPcs == {"disc", "disc_wait", "hc_check", "hc_make", "swap_remove",
                  "swap_append", "swap_new", "hc_remove", "hc_notify",
                  "disc_notify", "disc_close"}

NewThread ==
  [op |-> "none", ep |-> 1, retry |-> FALSE, pc |-> "idle", i |-> 0,
   conn |-> None, exc |-> "none", pend |-> "none", ok |-> TRUE, n |-> 0,
   made |-> 0, recon |-> 0, fails |-> 0, notes |-> 0, res |-> "none",
   waited |-> FALSE, bad |-> None, todo |-> <<>>, new |-> None, herr |-> "none",
   card |-> 0, frame |-> NoFrame, log |-> <<>>, hooks |-> <<>>, pkt |-> NoPacket,
   w0 |-> 0]

NewTransport ==
  [state |-> "unmade", ep |-> None, by |-> None, forced |-> FALSE,
   repl |-> None, late |-> FALSE, sd |-> FALSE]

\* Calls of the session thread in the dispatch specification.
MaxCalls == 3

\* The command ids that can be assigned: str(cmdid), line 1483.
Ids == {ToString(k) : k \in 0..MaxCalls}

\* The keys of HeimEndpoint.handlers in use: Absent is None, the handlers
\* called for every packet.
HandlerKeys == {Absent, "nick-reply"}

\* HeimEndpoint.__init__, lines 830-832 and 842-844: the session state after
\* construction.
InitSession ==
  /\ logged_in = [e \in Endpoints |-> FALSE]
  /\ nick_set = [e \in Endpoints |-> FALSE]
  /\ eff_nickname = [e \in Endpoints |-> Absent]
  /\ session_id = [e \in Endpoints |-> Absent]
  /\ sessionUp = [e \in Endpoints |-> FALSE]
  /\ nickSeen = [e \in Endpoints |-> FALSE]
  /\ cmdid = [e \in Endpoints |-> 0]
  /\ callbacks = [e \in Endpoints |-> {}]
  /\ cbruns = [e \in Endpoints |-> [k \in Ids |-> 0]]
  /\ wire = <<>>

\* A dict without keys.
EmptyDict == [k \in {} |-> <<>>]

\* UserList.__init__, lines 486-492; exc is the exception the last call
\* raised.  History: await is the id of the who command of the last
\* refresh_users() while no who-reply with that id has been dispatched.  lock
\* is the thread that holds _lock across steps, or None.
InitRoster ==
  /\ users = [list |-> <<>>, by_session_id |-> EmptyDict, by_agent_id |-> EmptyDict,
              by_name |-> EmptyDict, exc |-> "none", await |-> Absent, lock |-> None]
  /\ rosterOps = 0

\* No call of format_delta.
NoDelta == [d |-> 0, out |-> Absent]

\* A Message nobody calls.
NoMessage ==
  [content |-> "", lc |-> FALSE, lv |-> <<>>, sc |-> FALSE, sv |-> {},
   op |-> "none", res |-> "none", rl |-> <<>>, rs |-> {}]

\* None where a message of the MessageTree is expected.
NoMessageRecord == [id |-> None, parent |-> None, content |-> Absent]

\* MessageTree.__init__, lines 626-632.  History: added is, per id, the
\* message passed to add() last since the last clear(); inv and dup tell
\* whether the batch of the last call named, under one parent, a larger id
\* before a smaller one, and the largest id twice; n
\* counts the calls.
NoTree ==
  [messages |-> EmptyDict, children |-> EmptyDict, earliest |-> NoMessageRecord,
   latest |-> NoMessageRecord, added |-> EmptyDict, inv |-> FALSE, dup |-> FALSE,
   n |-> 0]

\* The values outside the endpoint before any of their operations.
InitLib ==
  /\ delta = NoDelta
  /\ msg = NoMessage
  /\ tree = NoTree

\* A HeimEndpoint with no handlers and no nickname configured (the defaults,
\* lines 816-827), and an empty UserList.
InitPlain ==
  /\ InitRoster
  /\ InitLib
  /\ InitSession
  /\ handlers = [e \in Endpoints |-> [k \in HandlerKeys |-> <<>>]]
  /\ logging = [e \in Endpoints |-> "heim"]
  /\ nickname = [e \in Endpoints |-> FALSE]

\* HeimEndpoint.__init__ (lines 818-844): the state after construction.
InitEndpoints ==
  /\ connection = [e \in Endpoints |-> None]
  /\ connecting = [e \in Endpoints |-> FALSE]
  /\ lock = [e \in Endpoints |-> None]
  /\ waiters = [e \in Endpoints |-> {}]
  /\ finalSeen = [e \in Endpoints |-> FALSE]
  /\ transport = [c \in Transports |-> NewTransport]
  /\ th = [t \in Threads |-> NewThread]

\* The state after construction and one successful connect() of endpoint 1
\* (lines 927-942): Transport 1 is installed and open.
InitConnected ==
  /\ connection = [e \in Endpoints |-> IF e = 1 THEN 1 ELSE None]
  /\ connecting = [e \in Endpoints |-> FALSE]
  /\ lock = [e \in Endpoints |-> None]
  /\ waiters = [e \in Endpoints |-> {}]
  /\ finalSeen = [e \in Endpoints |-> FALSE]
  /\ transport = [c \in Transports |->
                    IF c = 1 THEN [NewTransport EXCEPT !.state = "open", !.ep = 1]
                    ELSE NewTransport]
  /\ th = [t \in Threads |-> NewThread]

\* The first Transport not made yet, None when the bound is reached.
NextT == IF \E c \in Transports : transport[c].state = "unmade"
         THEN CHOOSE c \in Transports :
                /\ transport[c].state = "unmade"
                /\ \A d \in Transports : d < c => transport[d].state # "unmade"
         ELSE None

Made == {c \in Transports : transport[c].state # "unmade"}

Set(t, r) == th' = [th EXCEPT ![t] = r]

\* The operation returns or raises to its caller with outcome e.
Finish(r, e) ==
  [r EXCEPT !.pc = "idle", !.res = e, !.n = r.n + 1, !.conn = None, !.i = 0,
            !.pend = "none", !.todo = <<>>, !.new = None, !.herr = "none", !.card = 0]

\* An exception leaves the operation: main() runs its finally clause when the
\* exception comes out of handle_loop (lines 1565-1572), handle() leaves its
\* with block when the exception comes out of a built-in handler's send, every
\* other operation hands it to its caller (connect() in main() is outside the
\* try).
Propagate(r, e) ==
  IF r.op = "main" /\ r.pc \in AttemptPcs
  THEN [r EXCEPT !.pc = "disc", !.ok = FALSE, !.pend = e, !.conn = None, !.i = 0]
  ELSE IF r.op = "handle" /\ r.pc \in AttemptPcs
  THEN [r EXCEPT !.pc = "handle_exit", !.pend = e, !.conn = None, !.i = 0]
  ELSE Finish(r, e)

\* Mutant of AttemptFailed: the next attempt does not begin with _reconnect().
AttemptFailedNoReconnect(r, e) ==
  LET f == [r EXCEPT !.fails = r.fails + 1, !.exc = e, !.conn = None,
                     !.pend = "none"] IN
  IF r.i = retry_count THEN Propagate(f, e)
  ELSE [f EXCEPT !.i = r.i + 1, !.pc = "getconn"]

\* _attempt's except clause (lines 889-897) under _attempt_reconnect: the
\* failed attempt is counted, the last one re-raises, any other is followed by
\* the next attempt, which begins with _reconnect() (line 908).
AttemptFailed(r, e) ==
  LET f == [r EXCEPT !.fails = r.fails + 1, !.exc = e, !.conn = None,
                     !.pend = "none"] IN
  IF r.i = retry_count THEN Propagate(f, e)
  ELSE [f EXCEPT !.i = r.i + 1, !.pc = "reconn"]

\* Mutant of Raise: the retry flag of send_raw / recv_raw is ignored.
RaiseAlwaysRetry(r, e) ==
  IF r.pc \in AttemptPcs THEN AttemptFailed(r, e) ELSE Propagate(r, e)

\* An exception e raised at the thread's position: inside send_raw / recv_raw
\* with retry it fails the attempt, anywhere else it leaves the operation.
Raise(r, e) ==
  IF r.pc \in AttemptPcs /\ r.retry THEN AttemptFailed(r, e) ELSE Propagate(r, e)

\* _make_connection (lines 851-862): websocket.create_connection either
\* returns a new open Transport or raises.  c is the Transport made, None for
\* a failure.
MakeOutcomes == {None} \cup (IF NextT = None THEN {} ELSE {NextT})

\* Beside the Transport's state the model records where it comes from: the
\* endpoint and thread that made it, whether _reconnect made it, the faulted
\* Transport it replaces (for a forced reconnect after a fault), whether the endpoint had delivered a final
\* close notification before, and whether shutdown() had closed the endpoint.
MakeConnection(t, e, c, repl) ==
  IF c = None THEN UNCHANGED transport
  ELSE transport' = [transport EXCEPT ![c] =
         [state |-> "open", ep |-> e, by |-> t,
          forced |-> th[t].pc = "reconn_make", repl |-> repl,
          late |-> finalSeen[e], sd |-> shutting_down /\ finalSeen[e]]]

\* Condition.wait(): the thread joins the waiters and gives up the lock.
Wait(t, e, pc) ==
  /\ waiters' = [waiters EXCEPT ![e] = @ \cup {t}]
  /\ Set(t, [th[t] EXCEPT !.pc = pc, !.waited = TRUE])

\* Mutant of NotifyAll: nobody is woken.
NotifyNone(e) == UNCHANGED waiters

\* Condition.notifyAll().
NotifyAll(e) == waiters' = [waiters EXCEPT ![e] = {}]

\* Mutant of CanLock: the lock keeps nobody out.
CanLockAlways(t, e) == t \notin waiters[e]

\* A thread can enter (or, after wait(), re-enter) the monitor of endpoint e.
\* The lock is an RLock (line 834): the thread that holds it enters again.
CanLock(t, e) == lock[e] \in {None, t} /\ t \notin waiters[e]

\* A call of send_raw(obj, True) / recv_raw(True) begins (lines 1082-1084,
\* 1100-1102): _attempt's first trial, i = 0.
BeginAttempt(r) ==
  [r EXCEPT !.pc = "getconn", !.i = 0, !.conn = None, !.exc = "none",
            !.fails = 0, !.recon = 0, !.made = 0, !.bad = None, !.waited = FALSE]

\* What follows a normal return of _connect(): connect() and reconnect()
\* return, main() goes on to handle_loop() (lines 1563-1566).
AfterConnect(r) ==
  IF r.op = "main" THEN [BeginAttempt(r) EXCEPT !.retry = TRUE] ELSE Finish(r, "ok")

\* Mutant of ConnectBody: _connect does not wait for a connect in flight.
ConnectBodyNoWait(t) ==
  LET r == th[t]  e == r.ep IN
  IF connection[e] # None
  THEN /\ Set(t, AfterConnect(r))
       /\ UNCHANGED <<connecting, waiters>>
  ELSE /\ connecting' = [connecting EXCEPT ![e] = TRUE]
       /\ Set(t, [r EXCEPT !.pc = "connect_try", !.i = 0, !.conn = None])
       /\ UNCHANGED <<waiters>>

\* _connect, lines 925-931: the wait loop and what follows it.
ConnectBody(t) ==
  LET r == th[t]  e == r.ep IN
  IF connecting[e]
  THEN /\ Wait(t, e, "connect_wait")
       /\ UNCHANGED <<connecting>>
  ELSE IF connection[e] # None
  THEN /\ Set(t, AfterConnect(r))
       /\ UNCHANGED <<connecting, waiters>>
  ELSE /\ connecting' = [connecting EXCEPT ![e] = TRUE]
       /\ Set(t, [r EXCEPT !.pc = "connect_try", !.i = 0, !.conn = None])
       /\ UNCHANGED <<waiters>>

\* Mutant of ConnectEnter: the room is not tested.
ConnectEnterAnyRoom(t) ==
  LET r == th[t]  e == r.ep IN
  /\ r.pc = "connect"
  /\ CanLock(t, e)
  /\ ConnectBody(t)
  /\ UNCHANGED <<roomname, connection, lock, manager, finalSeen, transport, supvars, sessvars>>

\* _connect, lines 922-931.
ConnectEnter(t) ==
  LET r == th[t]  e == r.ep IN
  /\ r.pc = "connect"
  /\ CanLock(t, e)
  /\ IF ~roomname[e]
     THEN /\ Set(t, Raise(r, "NoRoomError"))
          /\ UNCHANGED <<connecting, waiters>>
     ELSE ConnectBody(t)
  /\ UNCHANGED <<roomname, connection, lock, manager, finalSeen, transport, supvars, sessvars>>

\* _connect, line 926: woken from wait(), the loop tests _connecting again.
ConnectWake(t) ==
  LET r == th[t]  e == r.ep IN
  /\ r.pc = "connect_wait"
  /\ CanLock(t, e)
  /\ ConnectBody(t)
  /\ UNCHANGED <<roomname, connection, lock, manager, finalSeen, transport, supvars, sessvars>>

\* Mutant of LastTrial: one trial too many.
LastTrialLate(i) == i = retry_count + 1

\* Whether trial i of _attempt is the last one (line 895, range(count + 1)).
LastTrial(i) == i = retry_count

\* One trial of _attempt (lines 885-897) around _make_connection, as _connect
\* uses it (lines 934-935): a failure before the last trial is followed by the
\* next trial, the last failure re-raises into the finally clause.
ConnectTry(t) ==
  LET r == th[t]  e == r.ep IN
  /\ r.pc = "connect_try"
  /\ \E c \in MakeOutcomes :
       /\ MakeConnection(t, e, c, None)
       /\ Set(t, IF c # None
                 THEN [r EXCEPT !.pc = "connect_fin", !.conn = c, !.made = r.made + 1]
                 ELSE IF LastTrial(r.i)
                 THEN [r EXCEPT !.pc = "connect_fin", !.pend = "WebSocketException",
                                !.exc = "WebSocketException",
                                !.made = r.made + 1, !.fails = r.fails + 1]
                 ELSE [r EXCEPT !.i = r.i + 1, !.exc = "WebSocketException",
                                !.made = r.made + 1, !.fails = r.fails + 1])
  /\ UNCHANGED <<epvars, supvars, sessvars>>

\* _connect's finally clause, lines 936-942.
ConnectFinally(t) ==
  LET r == th[t]  e == r.ep IN
  /\ r.pc = "connect_fin"
  /\ CanLock(t, e)
  /\ connecting' = [connecting EXCEPT ![e] = FALSE]
  /\ connection' = [connection EXCEPT ![e] = r.conn]
  /\ NotifyAll(e)
  /\ Set(t, IF r.pend = "none" THEN AfterConnect(r) ELSE Raise(r, r.pend))
  /\ UNCHANGED <<roomname, lock, manager, finalSeen, transport, supvars, sessvars>>

\* HeimEndpoint.handle_close(ok, final), lines 1058-1070, as far as the
\* endpoint itself goes: the notification is delivered.
NoteClose(r) ==
  [r EXCEPT !.notes = r.notes + 1, !.hooks = Append(r.hooks, "handle_close")]

\* _disconnect, lines 960-966, and _reconnect, lines 986-990: handle_logout
\* if a session was logged in, the flags are cleared, handle_close (which
\* forgets the effective nickname, line 1068).
NoteTeardown(r) ==
  NoteClose(IF logged_in[r.ep]
            THEN [r EXCEPT !.hooks = Append(r.hooks, "handle_logout")] ELSE r)

\* Mutant of LoggedOut: _logged_in is left as it is.
LoggedOutKeep(v) == v

\* self._logged_in = False, lines 962 and 988.
LoggedOut(v) == FALSE

\* Mutant of NickUnset: _nick_set is left as it is.
NickUnsetKeep(v) == v

\* self._nick_set = False, lines 963 and 989.
NickUnset(v) == FALSE

\* The state change of a teardown; sessionUp and nickSeen record that no
\* snapshot-event and no nick-reply was dispatched since.
Teardown(e) ==
  /\ logged_in' = [logged_in EXCEPT ![e] = LoggedOut(@)]
  /\ nick_set' = [nick_set EXCEPT ![e] = NickUnset(@)]
  /\ eff_nickname' = [eff_nickname EXCEPT ![e] = Absent]
  /\ session_id' = [session_id EXCEPT ![e] = Absent]
  /\ sessionUp' = [sessionUp EXCEPT ![e] = FALSE]
  /\ nickSeen' = [nickSeen EXCEPT ![e] = FALSE]

\* What follows a return of _disconnect(): close() returns, reconnect() goes
\* on to connect() (lines 1035-1036), main() leaves its finally clause with
\* the exception that ended handle_loop (lines 1567-1572), shutdown() closes
\* its next bot (lines 2259-2260).
AfterDisconnect(r) ==
  IF r.op = "reconnect" THEN [r EXCEPT !.pc = "connect", !.conn = None]
  ELSE IF r.op = "main" THEN Finish(r, r.pend)
  ELSE IF r.op = "shutdown" THEN [r EXCEPT !.pc = "sd_loop", !.conn = None]
  ELSE Finish(r, "ok")

\* _disconnect, lines 958-967: the wait loop and what follows it.  With a
\* manager the thread keeps the lock while it is in manager.handle_close
\* (line 1070).
DisconnectBody(t) ==
  LET r == th[t]  e == r.ep IN
  IF connecting[e]
  THEN /\ Wait(t, e, "disc_wait")
       /\ UNCHANGED <<connection, finalSeen, lock, flagvars>>
  ELSE /\ connection' = [connection EXCEPT ![e] = None]
       /\ finalSeen' = [finalSeen EXCEPT ![e] = TRUE]
       /\ Teardown(e)
       /\ IF manager[e]
          THEN /\ lock' = [lock EXCEPT ![e] = t]
               /\ Set(t, [NoteTeardown(r) EXCEPT !.pc = "hc_check",
                                                 !.conn = connection[e]])
               /\ UNCHANGED waiters
          ELSE /\ NotifyAll(e)
               /\ Set(t, [NoteTeardown(r) EXCEPT !.pc = "disc_close",
                                                 !.conn = connection[e]])
               /\ UNCHANGED lock

\* _disconnect, lines 957-967.
DisconnectEnter(t) ==
  LET r == th[t]  e == r.ep IN
  /\ r.pc = "disc"
  /\ CanLock(t, e)
  /\ DisconnectBody(t)
  /\ UNCHANGED <<roomname, connecting, manager, transport, supvars, dispvars,
                 datavars>>

\* _disconnect, line 959: woken from wait().
DisconnectWake(t) ==
  LET r == th[t]  e == r.ep IN
  /\ r.pc = "disc_wait"
  /\ CanLock(t, e)
  /\ DisconnectBody(t)
  /\ UNCHANGED <<roomname, connecting, manager, transport, supvars, dispvars,
                 datavars>>

\* JSONWebSocket.close (lines 311-317): idempotent.
CloseTransport(c) ==
  IF c = None THEN UNCHANGED transport
  ELSE transport' = [transport EXCEPT ![c].state = "closed"]

\* _disconnect, lines 968-969, outside the lock.
DisconnectClose(t) ==
  LET r == th[t] IN
  /\ r.pc = "disc_close"
  /\ CloseTransport(r.conn)
  /\ Set(t, AfterDisconnect(r))
  /\ UNCHANGED <<epvars, supvars, sessvars>>

\* Condition.wait() gives up the endpoint's RLock, however often the thread
\* has entered it, and takes it back when it returns: handle() holds the lock
\* around its built-in handlers (line 1123), so the send of a handler that
\* waits for a connect in flight lets the other threads in.
WaitUnlocked(e) == lock' = [lock EXCEPT ![e] = None]
Relocked(t, r, e) == lock' = [lock EXCEPT ![e] = IF r.op = "handle" THEN t ELSE @]

\* _reconnect, lines 979-981: the connection is discarded unless a connect is
\* in flight.
Discarded(e) == IF ~connecting[e] THEN None ELSE connection[e]

\* Mutant of ReconnectBody: _reconnect does not wait for a connect in flight.
ReconnectBodyNoWait(t, r, conn) ==
  LET e == r.ep IN
  IF conn # None
  THEN /\ Set(t, [r EXCEPT !.pc = "getconn"])
       /\ UNCHANGED <<connecting, waiters, flagvars, lock>>
  ELSE /\ connecting' = [connecting EXCEPT ![e] = TRUE]
       /\ Teardown(e)
       /\ Set(t, [NoteTeardown(r) EXCEPT !.pc = "reconn_make", !.conn = None])
       /\ UNCHANGED <<waiters, lock>>

\* _reconnect, lines 982-993: the wait loop, the early return, the non-final
\* notification (the manager ignores it, lines 2387-2388) and the claim of the
\* connect.  conn is _connection as the thread sees it.
ReconnectBody(t, r, conn) ==
  LET e == r.ep IN
  IF connecting[e]
  THEN /\ waiters' = [waiters EXCEPT ![e] = @ \cup {t}]
       /\ WaitUnlocked(e)
       /\ Set(t, [r EXCEPT !.pc = "reconn_wait", !.waited = TRUE])
       /\ UNCHANGED <<connecting, flagvars>>
  ELSE IF conn # None
  THEN /\ Set(t, [r EXCEPT !.pc = "getconn"])
       /\ Relocked(t, r, e)
       /\ UNCHANGED <<connecting, waiters, flagvars>>
  ELSE /\ connecting' = [connecting EXCEPT ![e] = TRUE]
       /\ Teardown(e)
       /\ Relocked(t, r, e)
       /\ Set(t, [NoteTeardown(r) EXCEPT !.pc = "reconn_make", !.conn = None])
       /\ UNCHANGED <<waiters>>

\* _reconnect, lines 979-993, called by _attempt_reconnect's callback
\* before every attempt but the first (line 908).
ReconnectEnter(t) ==
  LET r == th[t]  e == r.ep IN
  /\ r.pc = "reconn"
  /\ CanLock(t, e)
  /\ connection' = [connection EXCEPT ![e] = Discarded(e)]
  /\ ReconnectBody(t, [r EXCEPT !.recon = r.recon + 1], Discarded(e))
  /\ UNCHANGED <<roomname, manager, finalSeen, transport, supvars, dispvars,
                 datavars>>

\* _reconnect, line 983: woken from wait().
ReconnectWake(t) ==
  LET r == th[t]  e == r.ep IN
  /\ r.pc = "reconn_wait"
  /\ CanLock(t, e)
  /\ ReconnectBody(t, r, connection[e])
  /\ UNCHANGED <<roomname, connection, manager, finalSeen, transport, supvars,
                 dispvars, datavars>>

\* Mutant of ReconnectMake: a failed establishment is tried again, as
\* _attempt does it for connect().
ReconnectMakeAgain(t) ==
  LET r == th[t]  e == r.ep IN
  /\ r.pc = "reconn_make"
  /\ \E c \in MakeOutcomes :
       /\ MakeConnection(t, e, c, r.bad)
       /\ Set(t, IF c = None /\ r.made < r.recon
                 THEN [r EXCEPT !.made = r.made + 1]
                 ELSE [r EXCEPT !.pc = "reconn_fin", !.conn = c, !.made = r.made + 1,
                                !.pend = IF c = None THEN "WebSocketException"
                                         ELSE "none"])
  /\ UNCHANGED <<epvars, supvars, sessvars>>

\* _reconnect, lines 994-996: one call of _make_connection.
ReconnectMake(t) ==
  LET r == th[t]  e == r.ep IN
  /\ r.pc = "reconn_make"
  /\ \E c \in MakeOutcomes :
       /\ MakeConnection(t, e, c, r.bad)
       /\ Set(t, [r EXCEPT !.pc = "reconn_fin", !.conn = c, !.made = r.made + 1,
                           !.pend = IF c = None THEN "WebSocketException" ELSE "none"])
  /\ UNCHANGED <<epvars, supvars, sessvars>>

\* _reconnect's finally clause, lines 997-1003; then the attempt's func, or
\* the attempt has failed.
ReconnectFinally(t) ==
  LET r == th[t]  e == r.ep IN
  /\ r.pc = "reconn_fin"
  /\ CanLock(t, e)
  /\ connecting' = [connecting EXCEPT ![e] = FALSE]
  /\ connection' = [connection EXCEPT ![e] = r.conn]
  /\ NotifyAll(e)
  /\ Set(t, IF r.pend = "none" THEN [r EXCEPT !.pc = "getconn", !.conn = None]
            ELSE Raise(r, r.pend))
  /\ UNCHANGED <<roomname, lock, manager, finalSeen, transport, supvars, sessvars>>

\* get_connection (lines 1045-1048) and the test that follows it in send_raw
\* and recv_raw (lines 1085-1087, 1103-1105).
GetConnectionBody(t) ==
  LET r == th[t]  e == r.ep IN
  IF connecting[e]
  THEN /\ Wait(t, e, "getconn_wait")
       /\ WaitUnlocked(e)
  ELSE /\ Set(t, IF connection[e] = None
                 THEN Raise([r EXCEPT !.bad = None], "NoConnectionError")
                 ELSE [r EXCEPT !.pc = "io", !.conn = connection[e]])
       /\ Relocked(t, r, e)
       /\ UNCHANGED waiters

GetConnection(t) ==
  LET r == th[t]  e == r.ep IN
  /\ r.pc = "getconn"
  /\ CanLock(t, e)
  /\ GetConnectionBody(t)
  /\ UNCHANGED <<roomname, connection, connecting, manager, finalSeen,
                 transport, supvars, sessvars>>

GetConnectionWake(t) ==
  LET r == th[t]  e == r.ep IN
  /\ r.pc = "getconn_wait"
  /\ CanLock(t, e)
  /\ GetConnectionBody(t)
  /\ UNCHANGED <<roomname, connection, connecting, manager, finalSeen,
                 transport, supvars, sessvars>>

\* What follows a successful conn.send / conn.recv: send_raw and recv_raw
\* return; in main() the frame is handled and handle_loop calls recv_raw
\* again (lines 1427, 1435); the send of a built-in handler returns into
\* handle(); handle_single() calls handle() with the frame that recv_raw()
\* returned (line 1427).
AfterIO(r) ==
  IF r.op = "main" THEN BeginAttempt(r)
  ELSE IF r.op = "handle_single"
  THEN [r EXCEPT !.op = "handle", !.pc = "handle", !.conn = None, !.i = 0]
  ELSE IF r.op = "handle" THEN [r EXCEPT !.pc = "handle_rest", !.conn = None, !.i = 0]
  ELSE Finish(r, "ok")

\* conn.send(obj) / conn.recv() (lines 276-309, 1088, 1106) on the Transport
\* the thread obtained: an open Transport delivers or breaks, a broken or
\* closed one raises WebSocketConnectionClosedException.
TransportIO(t) ==
  LET r == th[t]  c == r.conn IN
  /\ r.pc = "io"
  /\ \E good \in BOOLEAN :
       IF transport[c].state = "open" /\ good
       THEN /\ Set(t, AfterIO(r))
            /\ wire' = IF r.pkt.type = Absent THEN wire
                       ELSE Append(wire, [conn |-> c, type |-> r.pkt.type,
                                          id |-> r.pkt.id, time |-> r.pkt.time])
            /\ UNCHANGED transport
       ELSE /\ ~good
            /\ transport' = [transport EXCEPT ![c].state =
                               IF @ = "open" THEN "broken" ELSE @]
            /\ Set(t, Raise([r EXCEPT !.bad = c], "WebSocketException"))
            /\ UNCHANGED wire
  /\ UNCHANGED <<epvars, supvars, flagvars, cmdid, callbacks, cbruns, handlers,
                 logging, nickname, datavars>>

EntryPc(op) ==
  CASE op \in {"connect", "main"} -> "connect"
    [] op \in {"close", "reconnect"} -> "disc"
    [] op \in {"send_raw", "handle_single"} -> "getconn"
    [] op = "send_packet" -> "sendpkt"
    [] op = "set_callback" -> "setcb"
    [] op = "handle" -> "handle"
    [] op = "refresh_users" -> "refresh"
    [] op = "add" -> "add"
    [] op \in {"list", "for_session", "for_name"} -> "read"
    [] op = "mgr_main" -> "start"
    [] op = "shutdown" -> "shutdown"

\* A call of a public method begins.
Call(r, op, e, retry) ==
  [NewThread EXCEPT !.op = op, !.ep = e, !.retry = retry, !.pc = EntryPc(op),
                    !.n = r.n, !.w0 = Len(wire)]

\* The public methods of a HeimEndpoint called by other threads.
CallerOps == {"connect", "close", "reconnect", "send_raw"}

\* The calls the caller threads have begun.
Begun(t) == th[t].n + (IF th[t].pc = "idle" THEN 0 ELSE 1)

\* connect() (1005-1015), close() (1017-1024), reconnect() (1026-1036),
\* send_raw(obj, retry) / recv_raw(retry) (1072-1106), called on endpoint 1.
Start(t) ==
  LET r == th[t] IN
  /\ t \in Callers
  /\ r.pc = "idle"
  /\ Begun(CallerA) + Begun(CallerB) < MaxOps
  /\ \E op \in CallerOps, retry \in BOOLEAN :
       /\ retry => op = "send_raw"
       /\ Set(t, Call(r, op, 1, retry))
  /\ UNCHANGED <<epvars, transport, supvars, sessvars>>

\* list.remove(x) inside try / except ValueError (lines 2345-2348, 2365-2368).
Remove(seq, x) == SelectSeq(seq, LAMBDA y : y # x)

InBots(e) == \E k \in 1..Len(bots) : bots[k] = e

\* The endpoint object that the next botcls(**cfg) constructs, None when the
\* bound is reached.
NextE == IF \E e \in Endpoints : ~exists[e]
         THEN CHOOSE e \in Endpoints :
                ~exists[e] /\ \A d \in Endpoints : d < e => exists[d]
         ELSE None

\* BotManager.handle_close(bot, ok, final) for a final close, lines 2389-2401,
\* called from HeimEndpoint.handle_close (line 1070) with the bot's lock held:
\* isinstance(bot, None) raises TypeError when no botcls is configured; a bot
\* of another class, respawn_crashed off or a bot without a room leave through
\* the finally clause, which removes the bot.
HandleClose(t) ==
  LET r == th[t]  e == r.ep IN
  /\ r.pc = "hc_check"
  /\ mgrLock = None
  /\ Set(t, IF ~mgrcfg.botcls
            THEN [r EXCEPT !.pc = "hc_remove", !.herr = "TypeError"]
            ELSE IF ~isinst[e] \/ ~mgrcfg.respawn_crashed \/ ~roomname[e]
            THEN [r EXCEPT !.pc = "hc_remove"]
            ELSE [r EXCEPT !.pc = "hc_make"])
  /\ UNCHANGED <<epvars, transport, supvars, sessvars>>

\* make_bot(r, p, n), lines 2293-2320 and 2402-2405: a new endpoint of class
\* botcls with the closing bot's room, not yet managed.
MakeBot(t) ==
  LET r == th[t]  e == r.ep  b == NextE IN
  /\ r.pc = "hc_make"
  /\ mgrLock = None
  /\ b # None
  /\ IF ~mgrcfg.botcls
     THEN /\ Set(t, [r EXCEPT !.pc = "hc_remove"])
          /\ UNCHANGED <<roomname, isinst, exists>>
     ELSE /\ exists' = [exists EXCEPT ![b] = TRUE]
          /\ isinst' = [isinst EXCEPT ![b] = TRUE]
          /\ roomname' = [roomname EXCEPT ![b] = roomname[e]]
          /\ Set(t, [r EXCEPT !.pc = "swap_remove", !.new = b])
  /\ UNCHANGED <<connection, connecting, lock, waiters, manager, finalSeen,
                 transport, bots, shutting_down, mgrLock, mgrcfg, sessvars>>

\* Mutant of SwapRemove: the removal is a critical section of its own, as in
\* remove_bot(old) followed by add_bot(new).
SwapRemoveAlone(t) ==
  LET r == th[t]  e == r.ep IN
  /\ r.pc = "swap_remove"
  /\ mgrLock = None
  /\ manager' = [manager EXCEPT ![e] = FALSE]
  /\ bots' = Remove(bots, e)
  /\ Set(t, [r EXCEPT !.pc = "swap_append", !.card = Len(bots)])
  /\ UNCHANGED <<roomname, connection, connecting, lock, waiters, finalSeen,
                 transport, shutting_down, mgrLock, mgrcfg, isinst, exists, sessvars>>

\* swap_bots(old, new), lines 2362-2368: old.manager = None, then, in the
\* critical section of the manager lock, old is removed.
SwapRemove(t) ==
  LET r == th[t]  e == r.ep IN
  /\ r.pc = "swap_remove"
  /\ mgrLock = None
  /\ mgrLock' = t
  /\ manager' = [manager EXCEPT ![e] = FALSE]
  /\ bots' = Remove(bots, e)
  /\ Set(t, [r EXCEPT !.pc = "swap_append", !.card = Len(bots)])
  /\ UNCHANGED <<roomname, connection, connecting, lock, waiters, finalSeen,
                 transport, shutting_down, mgrcfg, isinst, exists, sessvars>>

\* swap_bots, lines 2369-2370: new is appended, which ends the critical
\* section.
SwapAppend(t) ==
  LET r == th[t] IN
  /\ r.pc = "swap_append"
  /\ mgrLock \in {None, t}
  /\ mgrLock' = None
  /\ bots' = IF InBots(r.new) THEN bots ELSE Append(bots, r.new)
  /\ Set(t, [r EXCEPT !.pc = "swap_new"])
  /\ UNCHANGED <<epvars, transport, shutting_down, mgrcfg, isinst, exists, sessvars>>

\* swap_bots, lines 2371-2372, and handle_close, lines 2407-2411:
\* new.manager = self, the respawner thread is spawned (it sleeps, then runs
\* b.main(), lines 2384-2386), and the finally clause has nothing to remove.
\* When start() has launched b.main() already (b was in bots when start()
\* ran), that run thread goes on; the second main() on the same endpoint is
\* left out, as for start().
Respawn(t) ==
  LET r == th[t]  b == r.new IN
  /\ r.pc = "swap_new"
  /\ CanLock(t, b)
  /\ manager' = [manager EXCEPT ![b] = TRUE]
  /\ th' = [th EXCEPT ![t] = [r EXCEPT !.pc = "disc_notify", !.new = None],
                      ![b] = IF th[b].pc = "idle" THEN Call(th[b], "main", b, TRUE)
                             ELSE th[b]]
  /\ UNCHANGED <<roomname, connection, connecting, lock, waiters, finalSeen,
                 transport, supvars, sessvars>>

\* handle_close's finally clause, lines 2409-2413: remove_bot(bot) (lines
\* 2342-2351) and the notification of join()'s condition, which join() does
\* not depend on (its wait is timed, line 2273).  A TypeError raised in
\* handle_close then leaves _disconnect through its with statement: the lock
\* is released, lines 967-969 are skipped.
RemoveBot(t) ==
  LET r == th[t]  e == r.ep IN
  /\ r.pc = "hc_remove"
  /\ mgrLock = None
  /\ manager' = [manager EXCEPT ![e] = FALSE]
  /\ bots' = Remove(bots, e)
  /\ IF r.herr = "none"
     THEN /\ Set(t, [r EXCEPT !.pc = "disc_notify"])
          /\ UNCHANGED lock
     ELSE /\ Set(t, Finish(r, r.herr))
          /\ lock' = [lock EXCEPT ![e] = None]
  /\ UNCHANGED <<roomname, connection, connecting, waiters, finalSeen, transport,
                 shutting_down, mgrLock, mgrcfg, isinst, exists, sessvars>>

\* _disconnect, line 967, after manager.handle_close has returned.
DisconnectNotify(t) ==
  LET r == th[t]  e == r.ep IN
  /\ r.pc = "disc_notify"
  /\ lock[e] = t
  /\ lock' = [lock EXCEPT ![e] = None]
  /\ NotifyAll(e)
  /\ Set(t, [r EXCEPT !.pc = "disc_close"])
  /\ UNCHANGED <<roomname, connection, connecting, manager, finalSeen, transport,
                 supvars, sessvars>>

\* BotManager.start(), lines 2246-2248: a thread per held bot runs b.main().
\* Then BotManager.main() goes on to join() (lines 2422-2423).  The model has
\* one run thread per endpoint: a bot whose main() is running (a respawned
\* one) keeps that thread.
ManagerStart(t) ==
  LET r == th[t] IN
  /\ r.pc = "start"
  /\ mgrLock = None
  /\ th' = [u \in Threads |->
              IF u = t THEN [r EXCEPT !.pc = "join"]
              ELSE IF u \in Endpoints /\ InBots(u) /\ th[u].pc = "idle"
              THEN Call(th[u], "main", u, TRUE)
              ELSE th[u]]
  /\ UNCHANGED <<epvars, transport, supvars, sessvars>>

\* BotManager.join(), lines 2270-2273: returns once bots is empty; the timed
\* wait re-tests it.
ManagerJoin(t) ==
  LET r == th[t] IN
  /\ r.pc = "join"
  /\ mgrLock = None
  /\ bots = <<>>
  /\ Set(t, Finish(r, "ok"))
  /\ UNCHANGED <<epvars, transport, supvars, sessvars>>

\* Mutant of Shutdown: the bots are closed inside the critical section of the
\* manager lock.
ShutdownLocked(t) ==
  LET r == th[t] IN
  /\ r.pc = "shutdown"
  /\ mgrLock = None
  /\ mgrLock' = t
  /\ shutting_down' = TRUE
  /\ Set(t, [r EXCEPT !.pc = "sd_loop", !.todo = bots])
  /\ UNCHANGED <<epvars, transport, bots, mgrcfg, isinst, exists, sessvars>>

\* BotManager.shutdown(), lines 2256-2258.
Shutdown(t) ==
  LET r == th[t] IN
  /\ r.pc = "shutdown"
  /\ mgrLock = None
  /\ shutting_down' = TRUE
  /\ Set(t, [r EXCEPT !.pc = "sd_loop", !.todo = bots])
  /\ UNCHANGED <<epvars, transport, bots, mgrLock, mgrcfg, isinst, exists, sessvars>>

\* BotManager.shutdown(), lines 2259-2262: b.close() for the next bot of the
\* list, or the final notification.
ShutdownLoop(t) ==
  LET r == th[t] IN
  /\ r.pc = "sd_loop"
  /\ IF r.todo = <<>>
     THEN /\ mgrLock = None
          /\ Set(t, Finish(r, "ok"))
     ELSE Set(t, [r EXCEPT !.pc = "disc", !.ep = Head(r.todo), !.todo = Tail(r.todo)])
  /\ UNCHANGED <<epvars, transport, supvars, sessvars>>

\* BotManager.main() (lines 2415-2423) and BotManager.shutdown() (lines
\* 2250-2262), as run_main calls them (lines 2446-2450): each once; a second
\* start() would run a second main() on the same endpoint.  The two callers
\* are interchangeable: CallerA is the one that calls main().
SupOps == {"mgr_main", "shutdown"}

StartSup(t) ==
  LET r == th[t] IN
  /\ t \in Callers
  /\ r.pc = "idle"
  /\ r.n = 0
  /\ \E op \in SupOps :
       /\ (op = "mgr_main") = (t = CallerA)
       /\ \A u \in Callers : th[u].op # op
       /\ Set(t, Call(r, op, 1, FALSE))
  /\ UNCHANGED <<epvars, transport, supvars, sessvars>>

(***************************************************************************)
(* UserList: the roster of SessionViews with its three indexes.           *)
(***************************************************************************)

\* The SessionViews passed to one call of add() or remove().
MaxArgs == 2

\* The calls made on the UserList.
MaxRosterOps == 4

SessionIds == {"s1", "s2"}
AgentIds == {"a1", "a2"}
Names == {"n1", "n2"}

\* SessionView, lines 436-476: the fields the UserList reads.
Views == [session_id : SessionIds, id : AgentIds, name : Names]

\* The arguments of add(*lst) and remove(*lst).
ViewLists == UNION {[1..n -> Views] : n \in 1..MaxArgs}

\* The patterns of remove_matching: Absent for a key the pattern does not
\* have.
Patterns ==
  [id : AgentIds \cup {Absent}, name : Names \cup {Absent}, server_id : {Absent},
   server_era : {Absent}]

\* x in s, for a list s.
Has(s, x) == \E i \in 1..Len(s) : s[i] = x

\* list.remove(x): the first element equal to x is taken out.
RemoveFirst(s, x) ==
  LET i == CHOOSE j \in 1..Len(s) : s[j] = x /\ \A k \in 1..(j - 1) : s[k] # x
  IN IF Has(s, x) THEN SubSeq(s, 1, i - 1) \o SubSeq(s, i + 1, Len(s)) ELSE s

\* d[k] = v
Put(d, k, v) == [x \in DOMAIN d \cup {k} |-> IF x = k THEN v ELSE d[x]]

\* d.pop(k)
Drop(d, k) == [x \in DOMAIN d \ {k} |-> d[x]]

\* d.get(k, [])
Get(d, k) == IF k \in DOMAIN d THEN d[k] ELSE <<>>

\* Mutant of DropName: the by-name index keeps the entry.
DropNameKeep(R, orig) == R

\* self._by_name[orig.name].remove(orig), lines 514 and 536.
DropName(R, orig) == [R EXCEPT !.by_name[orig.name] = RemoveFirst(@, orig)]

\* add(), lines 515-518: the view is appended to the list and to the indexes.
Insert(R, i) ==
  [R EXCEPT !.list = Append(@, i),
            !.by_session_id = Put(@, i.session_id, i),
            !.by_agent_id = Put(@, i.id, Append(Get(@, i.id), i)),
            !.by_name = Put(@, i.name, Append(Get(@, i.name), i))]

\* One round of the loop of add(), lines 509-518: an entry of the same
\* session_id is taken out of the list and the indexes first.  A list.remove
\* of an element that is not there raises ValueError, a missing index key
\* KeyError; the exception ends the call.
AddOne(R, i) ==
  LET k == i.session_id
      orig == R.by_session_id[k]
      R1 == [R EXCEPT !.by_session_id = Drop(@, k)]
      R2 == [R1 EXCEPT !.list = RemoveFirst(@, orig)]
      R3 == [R2 EXCEPT !.by_agent_id[orig.id] = RemoveFirst(@, orig)]
  IN
  IF R.exc # "none" THEN R
  ELSE IF k \notin DOMAIN R.by_session_id THEN Insert(R, i)
  ELSE IF ~Has(R1.list, orig) THEN [R1 EXCEPT !.exc = "ValueError"]
  ELSE IF orig.id \notin DOMAIN R2.by_agent_id THEN [R2 EXCEPT !.exc = "KeyError"]
  ELSE IF ~Has(R2.by_agent_id[orig.id], orig) THEN [R2 EXCEPT !.exc = "ValueError"]
  ELSE IF orig.name \notin DOMAIN R3.by_name THEN [R3 EXCEPT !.exc = "KeyError"]
  ELSE IF ~Has(R3.by_name[orig.name], orig) THEN [R3 EXCEPT !.exc = "ValueError"]
  ELSE Insert(DropName(R3, orig), i)

\* One round of the loop of remove(), lines 527-538: an unknown session_id
\* is skipped; the by-id index is read with get(orig.id, []), and only the
\* ValueError of the by-name index is caught.
RemoveOne(R, i) ==
  LET k == i.session_id
      orig == R.by_session_id[k]
      R1 == [R EXCEPT !.by_session_id = Drop(@, k)]
      R2 == [R1 EXCEPT !.list = RemoveFirst(@, orig)]
      R3 == IF orig.id \in DOMAIN R2.by_agent_id
            THEN [R2 EXCEPT !.by_agent_id[orig.id] = RemoveFirst(@, orig)] ELSE R2
  IN
  IF R.exc # "none" THEN R
  ELSE IF k \notin DOMAIN R.by_session_id THEN R
  ELSE IF ~Has(R1.list, orig) THEN [R1 EXCEPT !.exc = "ValueError"]
  ELSE IF ~Has(Get(R2.by_agent_id, orig.id), orig) THEN [R2 EXCEPT !.exc = "ValueError"]
  ELSE IF ~Has(Get(R3.by_name, orig.name), orig) THEN R3
  ELSE DropName(R3, orig)

RECURSIVE AddAll(_, _)
\* for i in lst, line 508.
AddAll(R, lst) ==
  IF lst = <<>> THEN R ELSE AddAll(AddOne(R, Head(lst)), Tail(lst))

RECURSIVE RemoveAll(_, _)
\* for i in lst, line 527.
RemoveAll(R, lst) ==
  IF lst = <<>> THEN R ELSE RemoveAll(RemoveOne(R, Head(lst)), Tail(lst))

\* clear(), lines 572-576.
Cleared(R) ==
  [R EXCEPT !.list = <<>>, !.by_session_id = EmptyDict, !.by_agent_id = EmptyDict,
            !.by_name = EmptyDict]

\* remove_matching, lines 554-563: every item of the pattern equals the
\* view's; a key the view does not have (KeyError) is no match.
Matches(i, p) ==
  \A k \in DOMAIN p : p[k] # Absent => (k \in DOMAIN i /\ i[k] = p[k])

\* remove_matching(pattern), lines 551-564: an empty pattern clears, any
\* other removes the views it matches.
RemoveMatching(R, p) ==
  LET Hit(i) == Matches(i, p) IN
  IF \A k \in DOMAIN p : p[k] = Absent THEN Cleared(R)
  ELSE RemoveAll(R, SelectSeq(R.list, Hit))

\* A call begins with no exception pending.
Fresh(R) == [R EXCEPT !.exc = "none"]

\* usr = self.users.for_session(session_id); usr.name = to (lines 1628-1629):
\* for_session raises KeyError for a session that is not known (line 596);
\* the assignment sets the item of the SessionView itself (Record.__setattr__,
\* line 219), so every list and index that holds the view shows the new
\* name, and no index is changed.
Rename(R, k, to) ==
  LET usr == R.by_session_id[k]
      new == [usr EXCEPT !.name = to]
      Re(s) == [j \in DOMAIN s |-> IF s[j] = usr THEN new ELSE s[j]]
  IN
  IF k \notin DOMAIN R.by_session_id THEN [R EXCEPT !.exc = "KeyError"]
  ELSE [R EXCEPT !.list = Re(R.list),
                 !.by_session_id = Re(R.by_session_id),
                 !.by_agent_id = [x \in DOMAIN R.by_agent_id |-> Re(R.by_agent_id[x])],
                 !.by_name = [x \in DOMAIN R.by_name |-> Re(R.by_name[x])]]

\* The part of LoggingEndpoint.handle_early that maintains the user list
\* (lines 1617-1631), for a wrapped packet f.
EarlyUsers(R, f) ==
  IF f.type \in {"who-reply", "snapshot-event", "join-event"}
  THEN AddAll(Fresh(R), f.views)
  ELSE IF f.type = "part-event" THEN RemoveAll(Fresh(R), f.views)
  ELSE IF f.type = "network-event" /\ f.kind = "partition"
  THEN RemoveMatching(Fresh(R), [id |-> Absent, name |-> Absent,
                                 server_id |-> f.server_id,
                                 server_era |-> f.server_era])
  ELSE IF f.type = "nick-event" THEN Rename(Fresh(R), f.sid, f.to)
  ELSE R

RosterAdd ==
  /\ rosterOps < MaxRosterOps
  /\ \E lst \in ViewLists : users' = AddAll(Fresh(users), lst)
  /\ rosterOps' = rosterOps + 1
  /\ UNCHANGED <<epvars, transport, supvars, flagvars, dispvars, libvars, th>>

RosterRemove ==
  /\ rosterOps < MaxRosterOps
  /\ \E lst \in ViewLists : users' = RemoveAll(Fresh(users), lst)
  /\ rosterOps' = rosterOps + 1
  /\ UNCHANGED <<epvars, transport, supvars, flagvars, dispvars, libvars, th>>

RosterRemoveMatching ==
  /\ rosterOps < MaxRosterOps
  /\ \E p \in Patterns : users' = RemoveMatching(Fresh(users), p)
  /\ rosterOps' = rosterOps + 1
  /\ UNCHANGED <<epvars, transport, supvars, flagvars, dispvars, libvars, th>>

RosterClear ==
  /\ rosterOps < MaxRosterOps
  /\ users' = Cleared(Fresh(users))
  /\ rosterOps' = rosterOps + 1
  /\ UNCHANGED <<epvars, transport, supvars, flagvars, dispvars, libvars, th>>
(***************************************************************************)
(* UserList under concurrent callers: add() statement by statement, and   *)
(* the readers list(), for_session() and for_name().                      *)
(***************************************************************************)

\* The SessionViews added: session s1 under two names, and session s2.
AddViews == {v \in Views : v.id = "a1" /\ (v.session_id = "s2" => v.name = "n1")}

\* Mutant of UserLockFree: the caller does not wait for the lock.
UserLockIgnored(R, t) == TRUE

\* with self._lock (an RLock, line 492): nobody else holds it.
UserLockFree(R, t) == R.lock \in {None, t}

\* Statement s of the loop body of add() for view v, lines 511-518; orig is
\* the entry popped in line 511.  list.remove of an element that is not there
\* raises ValueError, a missing index key KeyError.
AddStmt(R, v, orig, s) ==
  CASE s = 0 -> [R EXCEPT !.by_session_id = Drop(@, v.session_id)]
    [] s = 1 -> IF Has(R.list, orig) THEN [R EXCEPT !.list = RemoveFirst(@, orig)]
                ELSE [R EXCEPT !.exc = "ValueError"]
    [] s = 2 -> IF orig.id \notin DOMAIN R.by_agent_id THEN [R EXCEPT !.exc = "KeyError"]
                ELSE IF ~Has(R.by_agent_id[orig.id], orig)
                THEN [R EXCEPT !.exc = "ValueError"]
                ELSE [R EXCEPT !.by_agent_id[orig.id] = RemoveFirst(@, orig)]
    [] s = 3 -> IF orig.name \notin DOMAIN R.by_name THEN [R EXCEPT !.exc = "KeyError"]
                ELSE IF ~Has(R.by_name[orig.name], orig)
                THEN [R EXCEPT !.exc = "ValueError"]
                ELSE DropName(R, orig)
    [] s = 4 -> [R EXCEPT !.list = Append(@, v)]
    [] s = 5 -> [R EXCEPT !.by_session_id = Put(@, v.session_id, v)]
    [] s = 6 -> [R EXCEPT !.by_agent_id = Put(@, v.id, Append(Get(@, v.id), v))]
    [] s = 7 -> [R EXCEPT !.by_name = Put(@, v.name, Append(Get(@, v.name), v))]

\* add(v) begins: with self._lock, line 508.
AddLock(t) ==
  LET r == th[t] IN
  /\ r.pc = "add"
  /\ UserLockFree(users, t)
  /\ users' = [Fresh(users) EXCEPT !.lock = t]
  /\ Set(t, [r EXCEPT !.pc = "add_run", !.i = 0])
  /\ UNCHANGED <<epvars, transport, supvars, flagvars, dispvars, rosterOps, libvars>>

\* One statement of add(v), lines 510-518: r.i is the statement, the view is
\* r.frame.views[1] and, once popped, the old entry r.frame.views[2].  For a
\* session_id that is not known the test of line 510 leads to line 515.  The
\* lock is given up after the last statement and when an exception leaves
\* the with block.
AddStatement(t) ==
  LET r == th[t]
      v == r.frame.views[1]
      known == v.session_id \in DOMAIN users.by_session_id
      s == IF r.i = 0 /\ ~known THEN 4 ELSE r.i
      orig == IF r.i > 0 /\ Len(r.frame.views) = 2 THEN r.frame.views[2]
              ELSE IF known THEN users.by_session_id[v.session_id] ELSE v
      U == AddStmt(users, v, orig, s)
  IN
  /\ r.pc = "add_run"
  /\ users.lock = t
  /\ IF U.exc # "none"
     THEN /\ users' = [U EXCEPT !.lock = None]
          /\ Set(t, Finish(r, U.exc))
     ELSE IF s = 7
     THEN /\ users' = [U EXCEPT !.lock = None]
          /\ Set(t, Finish(r, "ok"))
     ELSE /\ users' = U
          /\ Set(t, [r EXCEPT !.i = s + 1,
                              !.frame.views = IF s = 0 THEN <<v, orig>> ELSE @])
  /\ UNCHANGED <<epvars, transport, supvars, flagvars, dispvars, rosterOps, libvars>>

\* list() (lines 578-586), for_session(id) (lines 588-596: KeyError for a
\* session that is not known) and for_name(name) (lines 607-614), each with
\* self._lock; the list returned is r.frame.views.
ReadCall(t) ==
  LET r == th[t]
      k == r.frame.sid
      out == IF r.op = "list" THEN users.list
             ELSE IF r.op = "for_name" THEN Get(users.by_name, r.frame.to)
             ELSE IF k \in DOMAIN users.by_session_id THEN <<users.by_session_id[k]>>
             ELSE <<>>
      e == IF r.op = "for_session" /\ k \notin DOMAIN users.by_session_id
           THEN "KeyError" ELSE "ok"
  IN
  /\ r.pc = "read"
  /\ UserLockFree(users, t)
  /\ Set(t, Finish([r EXCEPT !.frame.views = out], e))
  /\ UNCHANGED <<epvars, transport, supvars, sessvars>>

\* One thread adds views, one after the other.
StartAdd(t) ==
  LET r == th[t] IN
  /\ t = CallerA
  /\ r.pc = "idle"
  /\ r.n < MaxCalls
  /\ \E v \in AddViews : Set(t, [Call(r, "add", 1, FALSE) EXCEPT !.frame.views = <<v>>])
  /\ UNCHANGED <<epvars, transport, supvars, sessvars>>

\* Another thread reads: list(), for_session(id) or for_name(name).
StartRead(t) ==
  LET r == th[t] IN
  /\ t = CallerB
  /\ r.pc = "idle"
  /\ r.n < MaxCalls
  /\ \/ Set(t, Call(r, "list", 1, FALSE))
     \/ \E k \in SessionIds : Set(t, [Call(r, "for_session", 1, FALSE) EXCEPT !.frame.sid = k])
     \/ \E n \in Names : Set(t, [Call(r, "for_name", 1, FALSE) EXCEPT !.frame.to = n])
  /\ UNCHANGED <<epvars, transport, supvars, sessvars>>


(***************************************************************************)
(* Packets: command ids, reply callbacks and the dispatch of inbound       *)
(* frames by handle().                                                     *)
(***************************************************************************)

\* handlers.get(pkttype, ()), line 1374.
Handlers(e, k) == IF k \in HandlerKeys THEN handlers[e][k] ELSE <<>>

\* The types whose payload _postprocess_packet reads (lines 1166-1190): a
\* frame of such a type without the payload raises KeyError.
PayloadTypes ==
  {"get-message-reply", "send-reply", "edit-message-reply", "edit-message-event",
   "send-event", "log-reply", "who-reply", "hello-event", "join-event",
   "part-event", "snapshot-event"}

\* The types handle() has a built-in handler for (lines 1128-1140).
BuiltinTypes ==
  {"bounce-event", "disconnect-event", "edit-message-event", "hello-event",
   "join-event", "login-event", "logout-event", "network-event", "nick-event",
   "part-event", "ping-event", "send-event", "snapshot-event"}

\* t.endswith('-reply'), line 1142, for the types of the protocol.
ReplyTypes ==
  {"nick-reply", "send-reply", "who-reply", "log-reply", "get-message-reply",
   "edit-message-reply", "auth-reply", "ping-reply"}

\* The frames the server sends in the model: a ping-event (its timestamp is
\* in the payload), a snapshot-event, two nick-replies, a send-event whose
\* payload is missing, and a frame without a type.
Frames ==
  { [NoFrame EXCEPT !.type = "ping-event", !.data = TRUE, !.time = "t1"],
    [NoFrame EXCEPT !.type = "snapshot-event", !.data = TRUE],
    [NoFrame EXCEPT !.type = "nick-reply", !.id = "0", !.data = TRUE, !.to = "a"],
    [NoFrame EXCEPT !.type = "nick-reply", !.id = "1", !.data = TRUE, !.to = "b"],
    [NoFrame EXCEPT !.type = "send-event"],
    [NoFrame EXCEPT !.id = "0"] }

\* _postprocess_packet (lines 1154-1191) as handle() uses it (lines 1119-1122):
\* TRUE when it returns the wrapped Packet, FALSE when it raises KeyError (no
\* type, or a payload it reads is missing) and handle() goes on with the raw
\* dict.
Wrapped(f) == f.type # Absent /\ (f.type \in PayloadTypes => f.data)

\* send_packet_raw, lines 1482-1488: the packet gets the id str(cmdid).
NewPacket(e, type, time) == [type |-> type, id |-> ToString(cmdid[e]), time |-> time]

\* send_packet_raw, lines 1482-1486: cmdid is counted up and the callback, if
\* any, is registered for the new id.
AssignId(e, withcb) ==
  /\ cmdid' = [cmdid EXCEPT ![e] = @ + 1]
  /\ IF withcb
     THEN /\ callbacks' = [callbacks EXCEPT ![e] = @ \cup {ToString(cmdid[e])}]
          /\ cbruns' = [cbruns EXCEPT ![e][ToString(cmdid[e])] = 0]
     ELSE UNCHANGED <<callbacks, cbruns>>

\* send_packet(type, callback) / send_packet_raw, lines 1473-1490, up to the
\* call of send_raw(pkt), which retries (line 1489).  r.retry says whether a
\* callback is given.
SendPacket(t) ==
  LET r == th[t]  e == r.ep IN
  /\ r.pc = "sendpkt"
  /\ CanLock(t, e)
  /\ AssignId(e, r.retry)
  /\ Set(t, [BeginAttempt(r) EXCEPT !.retry = TRUE,
                                    !.pkt = NewPacket(e, "cmd", Absent)])
  /\ UNCHANGED <<epvars, transport, supvars, flagvars, handlers, logging, nickname,
                 wire, datavars>>

\* set_callback(id, cb), lines 1467-1471.  r.retry says whether cb is a
\* callback (TRUE) or None; the id is r.pkt.id.
SetCallback(t) ==
  LET r == th[t]  e == r.ep  k == r.pkt.id IN
  /\ r.pc = "setcb"
  /\ CanLock(t, e)
  /\ IF r.retry
     THEN /\ callbacks' = [callbacks EXCEPT ![e] = @ \cup {k}]
          /\ cbruns' = [cbruns EXCEPT ![e][k] = 0]
     ELSE /\ callbacks' = [callbacks EXCEPT ![e] = @ \ {k}]
          /\ UNCHANGED cbruns
  /\ Set(t, Finish(r, "ok"))
  /\ UNCHANGED <<epvars, transport, supvars, flagvars, cmdid, handlers, logging,
                 nickname, wire, datavars>>

\* LoggingEndpoint.handle_early (lines 1614-1643) reads packet.type when it
\* maintains the user list or the chat log: a raw dict has no attribute type.
EarlyFails(e, f) == logging[e] = "log_on" /\ ~Wrapped(f)

\* The packets for which handle_early calls the UserList (lines 1618-1631).
RosterTypes ==
  {"who-reply", "snapshot-event", "network-event", "nick-event", "join-event",
   "part-event"}

\* handle_early lets the exception of the UserList pass.
EarlyRaises(e, f) ==
  /\ logging[e] = "log_on" /\ Wrapped(f) /\ f.type \in RosterTypes
  /\ EarlyUsers(users, f).exc # "none"

\* LoggingEndpoint.refresh_users(), lines 1756-1766: with the lock, the user
\* list is cleared and a who command is sent (send_packet without callback,
\* lines 1473-1490).  The Transport is installed and takes the packet.
RefreshUsers(t) ==
  LET r == th[t]  e == r.ep  p == NewPacket(e, "who", Absent) IN
  /\ r.pc = "refresh"
  /\ CanLock(t, e)
  /\ connection[e] # None
  /\ transport[connection[e]].state = "open"
  /\ users' = [Cleared(Fresh(users)) EXCEPT !.await = p.id]
  /\ AssignId(e, FALSE)
  /\ wire' = Append(wire, [conn |-> connection[e], type |-> p.type, id |-> p.id,
                           time |-> p.time])
  /\ Set(t, Finish([r EXCEPT !.pkt = p], "ok"))
  /\ UNCHANGED <<epvars, transport, supvars, flagvars, handlers, logging, nickname,
                 rosterOps, libvars>>

\* LoggingEndpoint.handle_any (lines 1645-1668) reads packet.type.
FinalFails(e, f) == logging[e] # "heim" /\ ~Wrapped(f)

\* The first part of handle(packet), lines 1119-1140: _postprocess_packet,
\* then, with the lock, handle_early and the built-in handler of the type.
\* on_ping_event (line 1345) sends a ping-reply with packet.get('time');
\* on_snapshot_event (lines 1361-1364) calls handle_login, sets _logged_in and
\* calls set_nickname, which sends a nick command when a nickname is configured
\* and a Transport is installed (lines 1533-1537); on_hello_event (line 1279)
\* stores packet.data['session'].session_id as the endpoint's session_id; it
\* reads packet.data, which a raw dict does not have.  The other built-in
\* handlers of the frames in use do nothing.  A LoggingEndpoint that
\* maintains the user list updates it in handle_early; an exception of the
\* UserList leaves handle() there.
HandleEnter(t) ==
  LET r == th[t]  e == r.ep  f == r.frame
      U0 == IF logging[e] = "log_on" /\ Wrapped(f) THEN EarlyUsers(users, f) ELSE users
      U == [U0 EXCEPT !.await = IF f.type = "who-reply" /\ f.id = @ THEN Absent ELSE @]
      l0 == (IF Wrapped(f) THEN <<"postprocess">> ELSE <<>>) \o <<"handle_early">>
      l1 == IF f.type \in BuiltinTypes THEN Append(l0, "builtin") ELSE l0
      sends == \/ f.type = "ping-event"
               \/ f.type = "snapshot-event" /\ connection[e] # None /\ nickname[e]
      r1 == [r EXCEPT !.log = l1,
                      !.hooks = IF f.type = "snapshot-event"
                                THEN Append(r.hooks, "handle_login") ELSE r.hooks]
  IN
  /\ r.pc = "handle"
  /\ CanLock(t, e)
  /\ sessionUp' = [sessionUp EXCEPT ![e] = @ \/ f.type = "snapshot-event"]
  /\ session_id' = [session_id EXCEPT ![e] =
                      IF f.type = "hello-event" /\ Wrapped(f) THEN f.sid ELSE @]
  /\ users' = U
  /\ IF EarlyFails(e, f)
     THEN /\ Set(t, Finish([r EXCEPT !.log = l0], "AttributeError"))
          /\ UNCHANGED <<lock, logged_in, cmdid, callbacks, cbruns>>
     ELSE IF EarlyRaises(e, f)
     THEN /\ Set(t, Finish([r EXCEPT !.log = l0], U.exc))
          /\ UNCHANGED <<lock, logged_in, cmdid, callbacks, cbruns>>
     ELSE IF f.type = "hello-event" /\ ~Wrapped(f)
     THEN /\ Set(t, Finish(r1, "AttributeError"))
          /\ UNCHANGED <<lock, logged_in, cmdid, callbacks, cbruns>>
     ELSE /\ lock' = [lock EXCEPT ![e] = t]
          /\ logged_in' = [logged_in EXCEPT ![e] = @ \/ f.type = "snapshot-event"]
          /\ IF sends
             THEN /\ AssignId(e, FALSE)
                  /\ Set(t, [BeginAttempt(r1) EXCEPT
                               !.retry = TRUE,
                               !.pkt = IF f.type = "ping-event"
                                       THEN NewPacket(e, "ping-reply", f.top)
                                       ELSE NewPacket(e, "nick", Absent)])
             ELSE /\ Set(t, [r1 EXCEPT !.pc = "handle_rest"])
                  /\ UNCHANGED <<cmdid, callbacks, cbruns>>
  /\ UNCHANGED <<roomname, connection, connecting, waiters, manager, finalSeen,
                 transport, supvars, nick_set, eff_nickname, nickSeen, handlers,
                 logging, nickname, wire, rosterOps, libvars>>

\* handle_reply (lines 1232-1244) reads packet.type and, for a nick-reply,
\* packet.data['to']: a raw dict has no attribute type, a Packet without payload
\* no attribute data.
ReplyFails(f) == f.type \in ReplyTypes /\ (~Wrapped(f) \/ (f.type = "nick-reply" /\ ~f.data))

\* Mutant of ChainLog: the handlers of the packet's type run before the
\* handlers for every packet.
ChainLogTypeFirst(e, f) ==
  (IF f.type \in ReplyTypes THEN <<"handle_reply">> ELSE <<>>)
    \o (IF f.type # Absent THEN Handlers(e, f.type) ELSE <<>>)
    \o Handlers(e, Absent)
    \o (IF f.id \in callbacks[e] THEN <<"callback">> ELSE <<>>)
    \o <<"handle_any">>

\* What the second part of handle() calls, lines 1141-1152, in this order:
\* handle_reply for a reply, the handlers for every packet, the handlers of
\* the packet's type, the callback popped for the packet's id, handle_any.
ChainLog(e, f) ==
  (IF f.type \in ReplyTypes THEN <<"handle_reply">> ELSE <<>>)
    \o Handlers(e, Absent)
    \o (IF f.type # Absent THEN Handlers(e, f.type) ELSE <<>>)
    \o (IF f.id \in callbacks[e] THEN <<"callback">> ELSE <<>>)
    \o <<"handle_any">>

\* Mutant of PopCallback: the callback stays registered.
PopCallbackKeep(cbs, k) == cbs

\* callbacks.pop(id, None), line 1149.
PopCallback(cbs, k) == cbs \ {k}

\* The second part of handle(), lines 1141-1152, and the end of the with
\* block.
HandleRest(t) ==
  LET r == th[t]  e == r.ep  f == r.frame
      isnick == f.type = "nick-reply"
  IN
  /\ r.pc = "handle_rest"
  /\ lock[e] = t
  /\ lock' = [lock EXCEPT ![e] = None]
  /\ IF ReplyFails(f)
     THEN /\ Set(t, Finish([r EXCEPT !.log = Append(r.log, "handle_reply")],
                           "AttributeError"))
          /\ UNCHANGED <<nick_set, eff_nickname, nickSeen, callbacks, cbruns>>
     ELSE /\ eff_nickname' = [eff_nickname EXCEPT ![e] = IF isnick THEN f.to ELSE @]
          /\ nick_set' = [nick_set EXCEPT ![e] = @ \/ isnick]
          /\ nickSeen' = [nickSeen EXCEPT ![e] = @ \/ isnick]
          /\ callbacks' = [callbacks EXCEPT ![e] = PopCallback(@, f.id)]
          /\ cbruns' = IF f.id \in callbacks[e]
                       THEN [cbruns EXCEPT ![e][f.id] = @ + 1] ELSE cbruns
          /\ Set(t, Finish([r EXCEPT
                              !.log = r.log \o ChainLog(e, f),
                              !.hooks = IF isnick /\ ~nick_set[e]
                                        THEN Append(r.hooks, "handle_nick_set")
                                        ELSE r.hooks],
                           IF FinalFails(e, f) THEN "AttributeError"
                           ELSE "ok"))
  /\ UNCHANGED <<roomname, connection, connecting, waiters, manager, finalSeen,
                 transport, supvars, logged_in, session_id, sessionUp, cmdid,
                 handlers, logging, nickname, wire, datavars>>

\* An exception of the send inside a built-in handler leaves handle() through
\* its with block.
HandleExit(t) ==
  LET r == th[t]  e == r.ep IN
  /\ r.pc = "handle_exit"
  /\ lock[e] = t
  /\ lock' = [lock EXCEPT ![e] = None]
  /\ Set(t, Finish(r, r.pend))
  /\ UNCHANGED <<roomname, connection, connecting, waiters, manager, finalSeen,
                 transport, supvars, sessvars>>

Dispatch(t) == HandleEnter(t) \/ HandleRest(t) \/ HandleExit(t)

\* The calls of the session thread: handle(frame), send_packet(type) with or
\* without a callback, set_callback(id, cb) with a callback or None, close()
\* and reconnect(), on endpoint 1.
StartSession(t) ==
  LET r == th[t] IN
  /\ t = CallerA
  /\ r.pc = "idle"
  /\ r.n < MaxCalls
  /\ \/ \E f \in Frames : Set(t, [Call(r, "handle", 1, FALSE) EXCEPT !.frame = f])
     \/ \E cb \in BOOLEAN : Set(t, Call(r, "send_packet", 1, cb))
     \/ \E cb \in BOOLEAN, k \in {"0"} :
          Set(t, [Call(r, "set_callback", 1, cb) EXCEPT !.pkt.id = k])
     \/ \E op \in {"close", "reconnect"} : Set(t, Call(r, op, 1, FALSE))
  /\ UNCHANGED <<epvars, transport, supvars, sessvars>>

\* The SessionViews the server sends: two sessions; session s2 is seen by two
\* servers.
UserViews ==
  { [session_id |-> "s1", id |-> "a1", name |-> "n1", server_id |-> "h1", server_era |-> "e1"],
    [session_id |-> "s2", id |-> "a1", name |-> "n2", server_id |-> "h1", server_era |-> "e2"],
    [session_id |-> "s2", id |-> "a2", name |-> "n1", server_id |-> "h2", server_era |-> "e1"] }

\* The listing of a who-reply or a snapshot-event.
Listings == UNION {[1..n -> UserViews] : n \in 0..MaxArgs}

\* The name a nick-event gives: one that no view of UserViews has.
NewName == "n3"

\* The frames that concern the user list: a who-reply (the answer to the
\* first command) and a snapshot-event with a listing, a join-event and a
\* part-event with one SessionView, a nick-event, and a network-event that
\* tells of a partition or of something else.
UserFrames ==
  {[NoFrame EXCEPT !.type = "who-reply", !.id = "0", !.data = TRUE, !.views = l] :
     l \in Listings}
  \cup {[NoFrame EXCEPT !.type = "snapshot-event", !.data = TRUE, !.views = l] :
          l \in Listings}
  \cup {[NoFrame EXCEPT !.type = tp, !.data = TRUE, !.views = <<v>>] :
          tp \in {"join-event", "part-event"}, v \in UserViews}
  \cup {[NoFrame EXCEPT !.type = "nick-event", !.data = TRUE, !.sid = k, !.to = NewName] :
          k \in {"s1", "s2"}}
  \cup {[NoFrame EXCEPT !.type = "network-event", !.data = TRUE, !.kind = "partition",
                        !.server_id = h, !.server_era = g] :
          h \in {"h1", "h2"}, g \in {"e1", "e2"}}
  \cup {[NoFrame EXCEPT !.type = "network-event", !.data = TRUE, !.kind = "other"]}

\* The calls of the session thread of a LoggingEndpoint that maintains the
\* user list: handle(frame) and refresh_users().
StartUsers(t) ==
  LET r == th[t] IN
  /\ t = CallerA
  /\ r.pc = "idle"
  /\ r.n < MaxCalls
  /\ \/ \E f \in UserFrames : Set(t, [Call(r, "handle", 1, FALSE) EXCEPT !.frame = f])
     \/ Set(t, Call(r, "refresh_users", 1, FALSE))
  /\ UNCHANGED <<epvars, transport, supvars, sessvars>>

(***************************************************************************)
(* send_packet_raw called by several threads: the critical section that    *)
(* assigns the command id, statement by statement.                         *)
(***************************************************************************)

\* send_packet_raw, lines 1482-1483: the thread enters the endpoint's lock
\* and reads cmdid = str(self.cmdid).  r.pkt.type is the type argument.
SendEnter(t) ==
  LET r == th[t]  e == r.ep IN
  /\ r.pc = "sendpkt"
  /\ CanLock(t, e)
  /\ lock' = [lock EXCEPT ![e] = t]
  /\ Set(t, [r EXCEPT !.pc = "send_count", !.pkt = NewPacket(e, r.pkt.type, Absent)])
  /\ UNCHANGED <<roomname, connection, connecting, waiters, manager, finalSeen,
                 transport, supvars, sessvars>>

\* send_packet_raw, line 1484: self.cmdid += 1.
SendCount(t) ==
  LET r == th[t]  e == r.ep IN
  /\ r.pc = "send_count"
  /\ cmdid' = [cmdid EXCEPT ![e] = @ + 1]
  /\ Set(t, [r EXCEPT !.pc = "send_cb"])
  /\ UNCHANGED <<epvars, transport, supvars, flagvars, callbacks, cbruns, handlers,
                 logging, nickname, wire, datavars>>

\* send_packet_raw, lines 1485-1489: the callback, if any (r.retry), is
\* registered under the id read, the lock is left, and send_raw(pkt) begins
\* (with retry, line 1489).
SendRegister(t) ==
  LET r == th[t]  e == r.ep  k == r.pkt.id IN
  /\ r.pc = "send_cb"
  /\ lock' = [lock EXCEPT ![e] = None]
  /\ IF r.retry
     THEN /\ callbacks' = [callbacks EXCEPT ![e] = @ \cup {k}]
          /\ cbruns' = [cbruns EXCEPT ![e][k] = 0]
     ELSE UNCHANGED <<callbacks, cbruns>>
  /\ Set(t, [BeginAttempt(r) EXCEPT !.retry = TRUE])
  /\ UNCHANGED <<roomname, connection, connecting, waiters, manager, finalSeen,
                 transport, supvars, flagvars, cmdid, handlers, logging, nickname,
                 wire, datavars>>

\* Two calls made next to each other: CallerA calls send_packet, a nick
\* command with a callback or a send command without one; so does CallerB,
\* unless the run thread of the endpoint handles a ping-event, whose built-in
\* handler sends the ping-reply from inside handle() (line 1345).
StartSend(t) ==
  LET r == th[t] IN
  /\ r.pc = "idle"
  /\ r.n = 0
  /\ \/ /\ t \in Callers
        /\ t = CallerB => Begun(1) = 0
        /\ \E cb \in BOOLEAN :
             Set(t, [Call(r, "send_packet", 1, cb) EXCEPT
                       !.pkt.type = IF cb THEN "nick" ELSE "send"])
     \/ /\ t = 1
        /\ Begun(CallerB) = 0
        /\ Set(t, [Call(r, "handle", 1, FALSE) EXCEPT
                     !.frame = [NoFrame EXCEPT !.type = "ping-event", !.data = TRUE,
                                               !.time = "t1"]])
  /\ UNCHANGED <<epvars, transport, supvars, sessvars>>

\* The frames that tell the endpoint who it is: the hello-event with its own
\* session and the reply to its nick command.
IdentityFrames ==
  { [NoFrame EXCEPT !.type = "hello-event", !.data = TRUE, !.sid = "s1"],
    [NoFrame EXCEPT !.type = "nick-reply", !.id = "0", !.data = TRUE, !.to = "a"] }

\* The run thread of endpoint 1 calls handle_single() (lines 1421-1427):
\* recv_raw(), which retries, returns the frame r.frame, which handle()
\* dispatches; next to it a caller calls close() or reconnect(), once.
StartSingle(t) ==
  LET r == th[t] IN
  /\ r.pc = "idle"
  /\ \/ /\ t = 1
        /\ r.n < MaxOps
        /\ \E f \in IdentityFrames :
             Set(t, [Call(r, "handle_single", 1, TRUE) EXCEPT !.frame = f])
     \/ /\ t = CallerA
        /\ r.n = 0
        /\ \E op \in {"close", "reconnect"} : Set(t, Call(r, op, 1, FALSE))
  /\ UNCHANGED <<epvars, transport, supvars, sessvars>>

(***************************************************************************)
(* format_delta: a time difference in seconds as text.                     *)
(***************************************************************************)

\* The largest count of days, hours, minutes and seconds in a time
\* difference.
MaxUnit == 2

\* The integer time differences format_delta is called with.
Deltas ==
  {sg * (dd * 86400 + hh * 3600 + mm * 60 + ss) :
     sg \in {-1, 1}, dd \in 0..MaxUnit, hh \in 0..MaxUnit, mm \in 0..MaxUnit,
     ss \in 0..MaxUnit}

RECURSIVE Join(_, _)
\* sep.join(parts)
Join(parts, sep) ==
  IF parts = <<>> THEN ""
  ELSE IF Len(parts) = 1 THEN parts[1]
  ELSE parts[1] \o sep \o Join(Tail(parts), sep)

\* '%d' % n followed by the unit's letter; nothing when the branch is not
\* taken.
Part(taken, n, unit) == IF taken THEN <<ToString(n) \o unit>> ELSE <<>>

\* format_delta, lines 139-141: the sign is a part of its own.
Sign(d) == IF d < 0 THEN <<"-">> ELSE <<>>

\* format_delta(delta), lines 135-156, for an integer delta: int(delta) is
\* delta and delta % 1 is 0, so the seconds are written with %d.
FormatDelta(d) ==
  LET a == IF d < 0 THEN -d ELSE d
      b == IF a >= 86400 THEN a % 86400 ELSE a
      c == IF b >= 3600 THEN b % 3600 ELSE b
      s == IF c >= 60 THEN c % 60 ELSE c
  IN IF d = 0 THEN "0s"
     ELSE Join(Sign(d) \o Part(a >= 86400, a \div 86400, "d")
                       \o Part(b >= 3600, b \div 3600, "h")
                       \o Part(c >= 60, c \div 60, "m")
                       \o Part(s # 0, s, "s"), " ")

\* A call of format_delta.
Format ==
  /\ delta.out = Absent
  /\ delta' = [delta EXCEPT !.out = FormatDelta(delta.d)]
  /\ UNCHANGED <<epvars, transport, supvars, flagvars, dispvars, rostervars, msg, tree, th>>

(***************************************************************************)
(* Message: the content and the two cached values derived from it.        *)
(***************************************************************************)

\* The longest content made of the letters of Alphabet.
MaxLen == 3

\* An at sign, a letter, a blank and a delimiter that is no blank.
Alphabet == {"@", "B", " ", ","}

RECURSIVE Words(_)
\* The texts of n letters.
Words(n) ==
  IF n = 0 THEN {""} ELSE {w \o ch : w \in Words(n - 1), ch \in Alphabet}

\* The contents a Message is made with or set to.
Contents == UNION {Words(n) : n \in 0..MaxLen} \cup {"hi @Bob, @Alice!"}

\* line[p], for p from 1.
Char(line, p) == SubSeq(line, p, p)

\* \s of the regular expressions, for the texts in use.
Whitespace == {" "}

\* _MENTION_DELIMITER, line 50.
Delimiters == {",", ".", "!", "?", ";", "&", "<", "'", "\""} \cup Whitespace

\* MENTION_RE (lines 51-52) tried at position p: the length of the match, 0
\* when there is none.  The at sign is at the beginning of the line or after
\* a delimiter; the name is the shortest run of one or more characters that
\* are no whitespace and that a delimiter or the end of the line follows.
MatchAt(line, p) ==
  LET L == Len(line)
      Ends(k) == /\ \A j \in 1..k : Char(line, p + j) \notin Whitespace
                 /\ p + k = L \/ Char(line, p + k + 1) \in Delimiters
      ks == {k \in 1..(L - p) : Ends(k)}
  IN IF Char(line, p) = "@" /\ (p = 1 \/ Char(line, p - 1) \in Delimiters) /\ ks # {}
     THEN 1 + CHOOSE k \in ks : \A k2 \in ks : k <= k2
     ELSE 0

RECURSIVE ScanFrom(_, _)
\* The loop of scan_mentions, lines 82-86, from offset (counted from 0):
\* MENTION_RE.search finds the leftmost match at or after offset, the Token
\* has the matched text and its start, the search goes on behind the match.
ScanFrom(line, offset) ==
  LET hits == {p \in (offset + 1)..Len(line) : MatchAt(line, p) > 0}
      p == CHOOSE q \in hits : \A q2 \in hits : q <= q2
      n == MatchAt(line, p)
  IN IF offset >= Len(line) \/ hits = {} THEN <<>>
     ELSE <<[offset |-> p - 1, text |-> SubSeq(line, p, p + n - 1)]>>
            \o ScanFrom(line, p - 1 + n)

\* scan_mentions(line), lines 74-87.
ScanMentions(line) == ScanFrom(line, 0)

UpperCase == "ABCDEFGHIJKLMNOPQRSTUVWXYZ"
LowerCase == "abcdefghijklmnopqrstuvwxyz"

\* str.lower() of one character.
Lower(ch) ==
  IF \E i \in 1..Len(UpperCase) : Char(UpperCase, i) = ch
  THEN Char(LowerCase, CHOOSE i \in 1..Len(UpperCase) : Char(UpperCase, i) = ch)
  ELSE ch

RECURSIVE NormalizeNick(_)
\* normalize_nick(nick), lines 65-72: whitespace removed, lower case.
NormalizeNick(nick) ==
  IF nick = "" THEN ""
  ELSE (IF Char(nick, 1) \in Whitespace THEN "" ELSE Lower(Char(nick, 1)))
         \o NormalizeNick(SubSeq(nick, 2, Len(nick)))

\* i[1:], line 432.
StripAt(text) == SubSeq(text, 2, Len(text))

\* frozenset(i[1:] for i in self.__mention_list), lines 432-433.
MentionNames(tokens) == {StripAt(tokens[i].text) : i \in 1..Len(tokens)}

\* Message.__init__, lines 409-413: both caches are None (lc and sc say
\* whether __mention_list and __mention_set hold a value); op, res, rl and rs
\* are the last call, how it ended and what it returned.
NewMessage(c) ==
  [content |-> c, lc |-> FALSE, lv |-> <<>>, sc |-> FALSE, sv |-> {},
   op |-> "none", res |-> "none", rl |-> <<>>, rs |-> {}]

\* Message.__setitem__('content', value), lines 415-419.
WriteContent ==
  /\ \E c \in Contents :
       msg' = [NewMessage(c) EXCEPT !.op = "write", !.res = "ok"]
  /\ UNCHANGED <<epvars, transport, supvars, flagvars, dispvars, rostervars, delta, tree,
                 th>>

\* Message.__setitem__ for another field, lines 415-419: the content stays,
\* the caches are dropped.
WriteField ==
  /\ msg' = [NewMessage(msg.content) EXCEPT !.op = "write", !.res = "ok"]
  /\ UNCHANGED <<epvars, transport, supvars, flagvars, dispvars, rostervars, delta, tree,
                 th>>

\* The property mention_list, lines 421-426.
ReadMentionList ==
  LET v == IF msg.lc THEN msg.lv ELSE ScanMentions(msg.content) IN
  /\ msg' = [msg EXCEPT !.lc = TRUE, !.lv = v, !.op = "mention_list", !.res = "ok",
                        !.rl = v, !.rs = {}]
  /\ UNCHANGED <<epvars, transport, supvars, flagvars, dispvars, rostervars, delta, tree,
                 th>>

\* The property mention_set, lines 428-434: it reads __mention_list, not the
\* property, and iterating over None raises TypeError.
ReadMentionSet ==
  LET v == IF msg.sc THEN msg.sv ELSE MentionNames(msg.lv) IN
  /\ IF ~msg.sc /\ ~msg.lc
     THEN msg' = [msg EXCEPT !.op = "mention_set", !.res = "TypeError",
                             !.rl = <<>>, !.rs = {}]
     ELSE msg' = [msg EXCEPT !.sc = TRUE, !.sv = v, !.op = "mention_set",
                             !.res = "ok", !.rl = <<>>, !.rs = v]
  /\ UNCHANGED <<epvars, transport, supvars, flagvars, dispvars, rostervars, delta, tree,
                 th>>

(***************************************************************************)
(* MessageTree: the chat log with its per-parent lists of message ids.    *)
(***************************************************************************)

\* Message ids are 1..MaxMsgId; their order is the order of the ids.
MaxMsgId == 2

\* The messages passed to one call of add().
MaxBatch == 2

\* The calls made on the MessageTree.
MaxTreeOps == 2

\* The messages added: a message is top-level (parent None) or a reply to
\* message 1.
Shapes == [id : 1..MaxMsgId, parent : {None, 1}]

\* The Messages of one batch are objects of their own: the content of a
\* message names its place in the batch.
Stamp(i) == "m" \o ToString(i)

\* The arguments of add(*lst).
Batches ==
  {[i \in DOMAIN s |-> [id |-> s[i].id, parent |-> s[i].parent, content |-> Stamp(i)]] :
     s \in UNION {[1..k -> Shapes] : k \in 1..MaxBatch}}

\* Mutant of Later: a message with the id of _latest does not replace it.
LaterStrict(a, b) == a < b

\* self._latest.id <= msg.id, line 664.
Later(a, b) == a <= b

\* One round of the loop of add(), lines 658-666.
TreeAddOne(T, m) ==
  LET c == Get(T.children, m.parent) IN
  [T EXCEPT !.messages = Put(@, m.id, m),
            !.children = Put(@, m.parent, IF Has(c, m.id) THEN c ELSE Append(c, m.id)),
            !.earliest = IF @ = NoMessageRecord \/ @.id > m.id THEN m ELSE @,
            !.latest = IF @ = NoMessageRecord \/ Later(@.id, m.id) THEN m ELSE @]

RECURSIVE TreeAddAll(_, _)
\* for msg in lst, line 658.
TreeAddAll(T, lst) ==
  IF lst = <<>> THEN T ELSE TreeAddAll(TreeAddOne(T, Head(lst)), Tail(lst))

\* Mutant of Sorted: the list is left in the order of insertion.
SortedNot(l) == l

\* l.sort(), line 667.
Sorted(l) == SortSeq(l, LAMBDA a, b : a < b)

\* for l in sorts.values(): l.sort(), line 667: the lists of the parents of
\* the batch are sorted.
SortTouched(T, lst) ==
  [T EXCEPT !.children =
     [p \in DOMAIN @ |->
        IF \E i \in 1..Len(lst) : lst[i].parent = p THEN Sorted(@[p]) ELSE @[p]]]

RECURSIVE AddedAll(_, _)
\* The history of the messages passed to add(), per id.
AddedAll(a, lst) ==
  IF lst = <<>> THEN a ELSE AddedAll(Put(a, Head(lst).id, Head(lst)), Tail(lst))

\* The batch names, under one parent, a larger id before a smaller one.
Inverted(lst) ==
  \E i, j \in 1..Len(lst) :
    i < j /\ lst[i].parent = lst[j].parent /\ lst[i].id > lst[j].id

\* The batch names the largest id twice.
Repeated(lst) ==
  \E i, j \in 1..Len(lst) : i < j /\ lst[i].id = MaxMsgId /\ lst[j].id = MaxMsgId

\* add(*lst), lines 650-667.
TreeAdd ==
  /\ tree.n < MaxTreeOps
  /\ \E lst \in Batches :
       tree' = [SortTouched(TreeAddAll(tree, lst), lst) EXCEPT
                  !.added = AddedAll(@, lst), !.inv = Inverted(lst),
                  !.dup = Repeated(lst), !.n = tree.n + 1]
  /\ UNCHANGED <<epvars, transport, supvars, flagvars, dispvars, rostervars, delta, msg,
                 th>>

\* clear(), lines 669-679.
TreeClear ==
  /\ tree.n < MaxTreeOps
  /\ tree' = [NoTree EXCEPT !.n = tree.n + 1]
  /\ UNCHANGED <<epvars, transport, supvars, flagvars, dispvars, rostervars, delta, msg,
                 th>>

\* An endpoint that no BotManager holds, with or without a room, as
\* constructed or (with a room) connected.
Init ==
  /\ roomname \in {[e \in Endpoints |-> b] : b \in BOOLEAN}
  /\ manager = [e \in Endpoints |-> FALSE]
  /\ bots = <<>>
  /\ shutting_down = FALSE
  /\ mgrLock = None
  /\ mgrcfg = [botcls |-> FALSE, respawn_crashed |-> FALSE]
  /\ isinst = [e \in Endpoints |-> FALSE]
  /\ exists = [e \in Endpoints |-> e = 1]
  /\ InitPlain
  /\ InitEndpoints \/ (roomname[1] /\ InitConnected)

Connect(t) == ConnectEnter(t) \/ ConnectWake(t) \/ ConnectTry(t) \/ ConnectFinally(t)
Disconnect(t) == DisconnectEnter(t) \/ DisconnectWake(t) \/ DisconnectClose(t)
Reconnect(t) ==
  ReconnectEnter(t) \/ ReconnectWake(t) \/ ReconnectMake(t) \/ ReconnectFinally(t)
SendRecv(t) == GetConnection(t) \/ GetConnectionWake(t) \/ TransportIO(t)

Next ==
  \E t \in Threads :
    Start(t) \/ Connect(t) \/ Disconnect(t) \/ Reconnect(t) \/ SendRecv(t)

Spec == Init /\ [][Next]_vars

\* Each of the two callers calls a public method of endpoint 1 once.
StartOnce(t) ==
  LET r == th[t] IN
  /\ t \in Callers
  /\ r.pc = "idle"
  /\ r.n = 0
  /\ \E op \in CallerOps, retry \in BOOLEAN :
       /\ retry => op = "send_raw"
       /\ Set(t, Call(r, op, 1, retry))
  /\ UNCHANGED <<epvars, transport, supvars, sessvars>>

\* The steps of thread t inside a call.
Run(t) == Connect(t) \/ Disconnect(t) \/ Reconnect(t) \/ SendRecv(t)

NextFair == \E t \in Threads : StartOnce(t) \/ Run(t)

\* Every thread is a thread of the interpreter: one that can take its next
\* step (the lock is free, wait() was notified, _make_connection or the
\* Transport has answered or timed out) takes it in the end.  Nothing forces
\* a caller to begin a call.
SpecFair == Init /\ [][NextFair]_vars /\ \A t \in Threads : WF_vars(Run(t))

\* A BotManager that holds endpoint 1 (from_config, lines 2205-2214, or the
\* bots argument, lines 2222-2231), with or without a botcls, respawn_crashed
\* on or off.
InitSup ==
  /\ roomname \in {[e \in Endpoints |-> b] : b \in BOOLEAN}
  /\ manager = [e \in Endpoints |-> e = 1]
  /\ bots = <<1>>
  /\ shutting_down = FALSE
  /\ mgrLock = None
  /\ mgrcfg \in [botcls : BOOLEAN, respawn_crashed : BOOLEAN]
  /\ isinst \in {[e \in Endpoints |-> b /\ e = 1] : b \in {mgrcfg.botcls}}
  /\ exists = [e \in Endpoints |-> e = 1]
  /\ InitPlain
  /\ InitEndpoints

Supervise(t) ==
  \/ HandleClose(t) \/ MakeBot(t) \/ SwapRemove(t) \/ SwapAppend(t) \/ Respawn(t)
  \/ RemoveBot(t) \/ DisconnectNotify(t)
  \/ ManagerStart(t) \/ ManagerJoin(t) \/ Shutdown(t) \/ ShutdownLoop(t)

\* Only main() connects a supervised endpoint and only it sends or receives,
\* so nobody waits in _connect, _reconnect or get_connection.
NextSup ==
  \E t \in Threads :
    \/ StartSup(t) \/ Supervise(t)
    \/ ConnectEnter(t) \/ ConnectTry(t) \/ ConnectFinally(t)
    \/ Disconnect(t)
    \/ ReconnectEnter(t) \/ ReconnectMake(t) \/ ReconnectFinally(t)
    \/ GetConnection(t) \/ TransportIO(t)

SpecSup == InitSup /\ [][NextSup]_vars

\* An endpoint with a room that no BotManager holds, connected, a
\* HeimEndpoint ("heim") or a LoggingEndpoint that maintains the user list
\* and the chat log ("log_on") or not ("log_off"), with or without a nickname,
\* with two handlers for every packet and one for nick-reply (config
\* 'handlers', line 827).
InitDispatch ==
  /\ roomname = [e \in Endpoints |-> TRUE]
  /\ manager = [e \in Endpoints |-> FALSE]
  /\ bots = <<>>
  /\ shutting_down = FALSE
  /\ mgrLock = None
  /\ mgrcfg = [botcls |-> FALSE, respawn_crashed |-> FALSE]
  /\ isinst = [e \in Endpoints |-> FALSE]
  /\ exists = [e \in Endpoints |-> e = 1]
  /\ InitSession
  /\ InitRoster
  /\ InitLib
  /\ handlers = [e \in Endpoints |->
                   [k \in HandlerKeys |->
                      IF k = Absent THEN <<"h1", "h2">> ELSE <<"h3">>]]
  /\ logging \in {[e \in Endpoints |-> k] : k \in {"heim", "log_off", "log_on"}}
  /\ nickname \in {[e \in Endpoints |-> b] : b \in BOOLEAN}
  /\ InitConnected

\* One thread calls the endpoint, so nobody waits on the monitor.
NextDispatch ==
  \E t \in Threads :
    \/ StartSession(t) \/ Dispatch(t) \/ SendPacket(t) \/ SetCallback(t)
    \/ ConnectEnter(t) \/ ConnectTry(t) \/ ConnectFinally(t)
    \/ DisconnectEnter(t) \/ DisconnectClose(t)
    \/ ReconnectEnter(t) \/ ReconnectMake(t) \/ ReconnectFinally(t)
    \/ GetConnection(t) \/ TransportIO(t)

SpecDispatch == InitDispatch /\ [][NextDispatch]_vars

\* A connected HeimEndpoint with a room that no BotManager holds, without
\* handlers and without a nickname.
InitSend ==
  /\ roomname = [e \in Endpoints |-> TRUE]
  /\ manager = [e \in Endpoints |-> FALSE]
  /\ bots = <<>>
  /\ shutting_down = FALSE
  /\ mgrLock = None
  /\ mgrcfg = [botcls |-> FALSE, respawn_crashed |-> FALSE]
  /\ isinst = [e \in Endpoints |-> FALSE]
  /\ exists = [e \in Endpoints |-> e = 1]
  /\ InitSession
  /\ InitRoster
  /\ InitLib
  /\ handlers = [e \in Endpoints |-> [k \in HandlerKeys |-> <<>>]]
  /\ logging = [e \in Endpoints |-> "heim"]
  /\ nickname = [e \in Endpoints |-> FALSE]
  /\ InitConnected

\* Two threads send over the endpoint; a send that fails makes a forced
\* reconnect, for which the other sender waits.
NextSend ==
  \E t \in Threads :
    \/ StartSend(t) \/ SendEnter(t) \/ SendCount(t) \/ SendRegister(t)
    \/ Dispatch(t)
    \/ Reconnect(t) \/ SendRecv(t)

SpecSend == InitSend /\ [][NextSend]_vars

\* The run thread receives and dispatches frames while another thread closes
\* or reconnects the endpoint.
NextSingle ==
  \E t \in Threads :
    \/ StartSingle(t) \/ HandleEnter(t) \/ HandleRest(t)
    \/ Connect(t) \/ Disconnect(t) \/ Reconnect(t) \/ SendRecv(t)

SpecSingle == InitSend /\ [][NextSingle]_vars

\* A connected LoggingEndpoint that maintains the user list (log_users),
\* without a nickname and without handlers.
InitUsers ==
  /\ roomname = [e \in Endpoints |-> TRUE]
  /\ manager = [e \in Endpoints |-> FALSE]
  /\ bots = <<>>
  /\ shutting_down = FALSE
  /\ mgrLock = None
  /\ mgrcfg = [botcls |-> FALSE, respawn_crashed |-> FALSE]
  /\ isinst = [e \in Endpoints |-> FALSE]
  /\ exists = [e \in Endpoints |-> e = 1]
  /\ InitSession
  /\ InitRoster
  /\ InitLib
  /\ handlers = [e \in Endpoints |-> [k \in HandlerKeys |-> <<>>]]
  /\ logging = [e \in Endpoints |-> "log_on"]
  /\ nickname = [e \in Endpoints |-> FALSE]
  /\ InitConnected

\* The session thread dispatches the frames and refreshes the user list.
NextUsers ==
  \E t \in Threads :
    StartUsers(t) \/ HandleEnter(t) \/ HandleRest(t) \/ RefreshUsers(t)

SpecUsers == InitUsers /\ [][NextUsers]_vars

\* A UserList and its callers; no endpoint acts.
NextRoster == RosterAdd \/ RosterRemove \/ RosterRemoveMatching \/ RosterClear

SpecRoster == Init /\ [][NextRoster]_vars

\* An endpoint without a room that nobody calls: the specifications of the
\* values outside the endpoint begin with it.
InitBase ==
  /\ roomname = [e \in Endpoints |-> FALSE]
  /\ manager = [e \in Endpoints |-> FALSE]
  /\ bots = <<>>
  /\ shutting_down = FALSE
  /\ mgrLock = None
  /\ mgrcfg = [botcls |-> FALSE, respawn_crashed |-> FALSE]
  /\ isinst = [e \in Endpoints |-> FALSE]
  /\ exists = [e \in Endpoints |-> e = 1]
  /\ InitSession
  /\ handlers = [e \in Endpoints |-> [k \in HandlerKeys |-> <<>>]]
  /\ logging = [e \in Endpoints |-> "heim"]
  /\ nickname = [e \in Endpoints |-> FALSE]
  /\ InitEndpoints

\* format_delta is called with any of the time differences.
InitDelta ==
  /\ InitBase
  /\ InitRoster
  /\ delta \in {[d |-> x, out |-> Absent] : x \in Deltas}
  /\ msg = NoMessage
  /\ tree = NoTree

NextDelta == Format

SpecDelta == InitDelta /\ [][NextDelta]_vars

\* A Message made with any of the contents; its fields are written and its
\* two properties read in any order.  Every call holds the Message's lock
\* from its beginning to its end (lines 415, 422, 429).
InitMessage ==
  /\ InitBase
  /\ InitRoster
  /\ delta = NoDelta
  /\ tree = NoTree
  /\ msg \in {NewMessage(c) : c \in Contents}

NextMessage == WriteContent \/ WriteField \/ ReadMentionList \/ ReadMentionSet

SpecMessage == InitMessage /\ [][NextMessage]_vars

\* An empty MessageTree and its callers; every call holds the tree's lock
\* from its beginning to its end (lines 657, 675).
InitTree ==
  /\ InitBase
  /\ InitRoster
  /\ InitLib

NextTree == TreeAdd \/ TreeClear

SpecTree == InitTree /\ [][NextTree]_vars

\* A UserList that one thread fills while another reads it.
InitReaders == InitBase /\ InitRoster /\ InitLib

NextReaders ==
  \E t \in Threads :
    StartAdd(t) \/ AddLock(t) \/ AddStatement(t) \/ StartRead(t) \/ ReadCall(t)

SpecReaders == InitReaders /\ [][NextReaders]_vars

(***************************************************************************)
(* The claims.                                                             *)
(***************************************************************************)

\* Both caller threads have called connect(), once each and nothing else, on
\* the endpoint as constructed, and both calls are over.
BothConnectsDone ==
  /\ \A t \in Callers : th[t].op = "connect" /\ th[t].pc = "idle" /\ th[t].n = 1
  /\ \A c \in Made : transport[c].by # None

\* C1: two concurrent connect() calls on a Disconnected endpoint with a room,
\* no establishment failing, construct exactly one Transport (only one of the
\* calls invokes _make_connection), and both return successfully with that
\* Transport installed.
C1_TwoConnectsOneTransport ==
  (BothConnectsDone /\ roomname[1] /\ \A t \in Callers : th[t].fails = 0)
    => /\ Cardinality(Made) = 1
       /\ Cardinality({t \in Callers : th[t].made = 1}) = 1
       /\ Cardinality({t \in Callers : th[t].made = 0}) = 1
       /\ \A t \in Callers : th[t].res = "ok"
       /\ connection[1] \in Made
       /\ transport[connection[1]].state = "open"

\* The two calls overlapped: one of them waited on the monitor for the other.
C1_Witness ==
  /\ BothConnectsDone /\ roomname[1]
  /\ \A t \in Callers : th[t].fails = 0 /\ th[t].res = "ok"
  /\ \E t \in Callers : th[t].waited /\ th[t].made = 0
  /\ Cardinality(Made) = 1

\* C2: reconnection is exactly-once under concurrent callers: for one faulted
\* Transport at most one new Transport is established by forced reconnects, so
\* a second caller that saw the same fault never discards the Transport the
\* first one installed.
C2_OneReplacementPerFault ==
  \A c \in Transports :
    Cardinality({d \in Made : transport[d].repl = c}) <= 1

\* A call of send_raw / recv_raw with retry=True.
Retrying(r) == r.op = "send_raw" /\ r.retry

\* C3: in send_raw / recv_raw with retry=True and budget N = retry_count, every
\* failed attempt but the last is followed by exactly one forced reconnect
\* before the next attempt, the call returns at the first attempt that
\* succeeds, and after N + 1 failed attempts it raises the error of the last
\* attempt, having made N forced reconnects.
C3_OneReconnectPerFailedAttempt ==
  \A t \in Callers :
    LET r == th[t] IN
    Retrying(r) =>
      /\ r.pc \in AttemptPcs =>
           /\ r.i <= retry_count
           /\ r.fails = r.i
           /\ r.recon = (IF r.pc = "reconn" THEN r.i - 1 ELSE r.i)
      /\ (r.pc = "idle" /\ r.res = "ok") =>
           r.fails <= retry_count /\ r.recon = r.fails
      /\ (r.pc = "idle" /\ r.res # "ok") =>
           r.fails = retry_count + 1 /\ r.recon = retry_count /\ r.res = r.exc

\* One call gave up after N + 1 failed attempts, another one succeeded after
\* a failed attempt and its forced reconnect.
C3_Witness ==
  \E t, u \in Callers :
    /\ Retrying(th[t]) /\ th[t].pc = "idle" /\ th[t].res = "WebSocketException"
    /\ th[t].fails = retry_count + 1 /\ th[t].recon = retry_count
    /\ Retrying(th[u]) /\ th[u].pc = "idle" /\ th[u].res = "ok"
    /\ th[u].fails = 1 /\ th[u].recon = 1

\* C4: connect() makes at most retry_count + 1 establishment attempts; when
\* all of them fail, the exception of the last one reaches the caller, no
\* Transport is installed, the connecting flag is cleared and every thread
\* waiting on the monitor has been notified.
C4_Step ==
  \A t \in Threads :
    LET r == th[t]  e == r.ep IN
    /\ r.pc = "connect_try" => r.i <= retry_count /\ r.made = r.i
    /\ (r.pc = "connect_try" /\ th'[t].pc = "connect_fin" /\ th'[t].pend # "none")
         => /\ th'[t].made = retry_count + 1
            /\ th'[t].conn = None
            /\ th'[t].pend = th'[t].exc
    /\ (r.pc = "connect_fin" /\ th'[t].pc # "connect_fin" /\ r.pend # "none")
         => /\ th'[t].pc = "idle"
            /\ th'[t].res = r.exc
            /\ connection'[e] = None
            /\ ~connecting'[e]
            /\ waiters'[e] = {}

C4_ConnectGivesUp == [][C4_Step]_vars

\* connect() failed after retry_count + 1 attempts while another thread was
\* waiting on the monitor, and that thread has gone on.
C4_Witness ==
  \E t, u \in Callers :
    /\ th[t].op = "connect" /\ th[t].pc = "idle"
    /\ th[t].res = "WebSocketException" /\ th[t].made = retry_count + 1
    /\ u # t /\ th[u].waited /\ th[u].pc = "idle"
    /\ connection[1] = None /\ ~connecting[1]

\* C5: connect() on an endpoint without a room fails with NoRoomError at once:
\* no retry, no attempt to establish a Transport, installed Transport and
\* connecting flag unchanged.
C5_Step ==
  \A t \in Threads :
    LET r == th[t]  e == r.ep IN
    (r.op = "connect" /\ r.pc = "connect" /\ ~roomname[e] /\ th'[t] # r)
      => /\ th'[t].pc = "idle"
         /\ th'[t].res = "NoRoomError"
         /\ th'[t].made = 0 /\ th'[t].fails = 0
         /\ connection' = connection
         /\ connecting' = connecting
         /\ transport' = transport

C5_NoRoomFailsAtOnce == [][C5_Step]_vars

\* connect() has failed with NoRoomError on an endpoint that has a Transport
\* installed (by a forced reconnect, which does not test the room).
C5_Witness ==
  /\ ~roomname[1]
  /\ connection[1] # None
  /\ \E t \in Callers :
       th[t].op = "connect" /\ th[t].pc = "idle" /\ th[t].res = "NoRoomError"

\* C6: send_raw / recv_raw with retry disabled waits while a connect is in
\* flight, and with no Transport installed and no connect in flight raises
\* NoConnectionError at once: no Transport is established, no notification
\* is emitted, no forced reconnect is made and the connection state is
\* unchanged.
C6_Step ==
  \A t \in Threads :
    LET r == th[t]  e == r.ep IN
    (r.op = "send_raw" /\ ~r.retry /\ r.pc \in {"getconn", "getconn_wait"}
       /\ th'[t] # r)
      => IF connecting[e] THEN th'[t].pc = "getconn_wait"
         ELSE IF connection[e] = None
         THEN /\ th'[t].pc = "idle"
              /\ th'[t].res = "NoConnectionError"
              /\ th'[t].made = 0 /\ th'[t].notes = 0 /\ th'[t].recon = 0
              /\ connection' = connection
              /\ connecting' = connecting
              /\ transport' = transport
              /\ finalSeen' = finalSeen
         ELSE th'[t].pc = "io"

C6_NoConnectionAtOnce == [][C6_Step]_vars

\* A call without retry waited for a connect in flight, which failed, and
\* then raised NoConnectionError.
C6_Witness ==
  \E t \in Callers :
    /\ th[t].op = "send_raw" /\ ~th[t].retry /\ th[t].pc = "idle"
    /\ th[t].res = "NoConnectionError" /\ th[t].waited
    /\ th[t].made = 0 /\ th[t].notes = 0

\* C7: close() is safe in every state: it does not proceed while a connect is
\* in flight, after it proceeds no Transport is installed, and when it is over
\* the Transport that was installed has been closed.
C7_Step ==
  \A t \in Threads :
    LET r == th[t]  e == r.ep IN
    /\ (r.pc \in {"disc", "disc_wait"} /\ th'[t].pc \notin {"disc", "disc_wait"})
         => ~connecting[e] /\ connection'[e] = None
    /\ (r.pc \in DisconnectPcs /\ th'[t].pc \notin DisconnectPcs /\ r.conn # None)
         => transport'[r.conn].state = "closed"

C7_CloseClosesTransport == [][C7_Step]_vars

\* C8: after an endpoint has delivered a close notification with final=true
\* it never again establishes a Transport.
C8_NoTransportAfterFinalClose ==
  \A c \in Made : ~transport[c].late

\* C9: shutdown() stops the endpoints for good: after shutdown() has closed an
\* endpoint, the run loop of that endpoint makes no forced reconnect that
\* establishes a new Transport.
C9_NoReconnectAfterShutdown ==
  \A c \in Made : ~(transport[c].sd /\ transport[c].forced)

\* How often b occurs in BotManager.bots.
Occurrences(seq, b) == Cardinality({k \in 1..Len(seq) : seq[k] = b})

\* C10: the respawn replaces the closing endpoint in one critical section of
\* the manager lock: the state with the old endpoint removed and the
\* replacement not yet added exists only while the swapping thread holds the
\* lock, so join() (which tests bots under the lock) never returns on it; after
\* the swap bots has the size it had before, without the old endpoint and
\* with the replacement exactly once.
C10_Locked ==
  \A t \in Threads : th[t].pc = "swap_append" => mgrLock = t

C10_Step ==
  \A t \in Threads :
    LET r == th[t] IN
    /\ (r.pc = "swap_remove" /\ th'[t].pc = "swap_append")
         => InBots(r.ep) /\ ~InBots(r.new)
    /\ (r.pc = "swap_append" /\ th'[t].pc = "swap_new")
         => /\ Len(bots') = r.card
            /\ Occurrences(bots', r.ep) = 0
            /\ Occurrences(bots', r.new) = 1
    /\ (r.pc = "join" /\ th'[t].pc = "idle")
         => \A u \in Threads : th[u].pc # "swap_append"

C10_AtomicSwap == [](C10_Locked) /\ [][C10_Step]_vars

\* A respawn has swapped the endpoints while a join() was testing bots.
C10_Witness ==
  \E t, u \in Threads :
    /\ th[t].pc = "swap_new" /\ InBots(th[t].new) /\ ~InBots(th[t].ep)
    /\ Len(bots) = th[t].card
    /\ th[u].pc = "join"

\* C11: a final close notification for which respawn is not applicable (no
\* botcls, bot of another class, respawn_crashed off, bot without a room)
\* removes the bot from BotManager.bots and returns to the closing endpoint
\* without raising, so that _disconnect goes on to notifyAll() and conn.close().
C11_Step ==
  \A t \in Threads :
    (th[t].pc = "hc_remove" /\ th'[t].pc # "hc_remove")
      => /\ Occurrences(bots', th[t].ep) = 0
         /\ th'[t].pc = "disc_notify"
         /\ th'[t].res # "TypeError"

C11_RemovedWithoutRaising == [][C11_Step]_vars

\* The run loop e.main() of endpoint e has terminated.
MainOver(e) == th[e].op = "main" /\ th[e].pc = "idle"

\* C12: every managed endpoint (with a room) whose run loop main() has
\* terminated, the initial connect() exhausting its retries included, has
\* delivered a final close notification and is no longer in BotManager.bots.
C12_TerminatedNotHeld ==
  \A e \in Endpoints :
    (MainOver(e) /\ roomname[e]) => finalSeen[e] /\ ~InBots(e)

\* The packets written to Transport c, in the order of their sending.
SentOver(c) ==
  LET Over(w) == w.conn = c IN SelectSeq(wire, Over)

\* C13: command ids restart per connection lifetime: the packets sent over
\* one Transport carry the ids "0", "1", "2", ... in this order, so the first
\* packet after every successful connect or reconnect carries "0".
C13_IdsRestartPerConnection ==
  \A c \in Transports :
    \A i \in 1..Len(SentOver(c)) : SentOver(c)[i].id = ToString(i - 1)

\* A call of handle() by thread t has returned normally.
Dispatched(t) == th[t].op = "handle" /\ th[t].pc = "idle" /\ th[t].res = "ok"

\* The chain of a typed frame f at endpoint e; cb is <<"callback">> when the
\* callback of the frame's id runs and <<>> when there is none.
C14_Chain(e, f, cb) ==
  <<"postprocess", "handle_early">>
    \o (IF f.type \in BuiltinTypes THEN <<"builtin">> ELSE <<>>)
    \o (IF f.type \in ReplyTypes THEN <<"handle_reply">> ELSE <<>>)
    \o handlers[e][Absent]
    \o (IF f.type \in HandlerKeys THEN handlers[e][f.type] ELSE <<>>)
    \o cb
    \o <<"handle_any">>

\* C14: for every typed frame that handle() classifies, the dispatch promotes
\* the nested structures once and then calls, in this order and each once:
\* handle_early, the built-in handler of the type, handle_reply for a reply,
\* the handlers for every packet, the handlers of the type, the callback of
\* the packet's id, handle_any.
C14_DispatchOrder ==
  \A t \in Threads :
    (Dispatched(t) /\ Wrapped(th[t].frame))
      => \E cb \in {<<>>, <<"callback">>} :
           th[t].log = C14_Chain(th[t].ep, th[t].frame, cb)

\* A nick-reply went through the whole chain, its callback included.
C14_Witness ==
  \E t \in Threads :
    /\ Dispatched(t)
    /\ th[t].frame.type = "nick-reply"
    /\ th[t].log = <<"postprocess", "handle_early", "handle_reply", "h1", "h2",
                     "h3", "callback", "handle_any">>

\* Step s is in the call log of thread t.
InLog(t, s) == \E i \in 1..Len(th[t].log) : th[t].log[i] = s

C15_Step ==
  /\ \A e \in Endpoints : \A k \in Ids : cbruns'[e][k] <= 1
  /\ \A t \in Threads :
       LET r == th[t]  e == r.ep  k == r.frame.id IN
       /\ (r.pc = "handle_rest" /\ th'[t].pc = "idle" /\ k \in callbacks[e])
            => /\ cbruns'[e][k] = cbruns[e][k] + 1
               /\ k \notin callbacks'[e]
       /\ (r.pc = "handle_rest" /\ th'[t].pc = "idle" /\ k \notin callbacks[e])
            => cbruns' = cbruns
       /\ (r.pc = "setcb" /\ ~r.retry /\ th'[t].pc = "idle")
            => /\ r.pkt.id \notin callbacks'[e]
               /\ cbruns' = cbruns

\* C15: a reply callback runs at most once: the first dispatched frame that
\* carries its id runs it and takes it out of the pending set, a later frame
\* with the same id runs nothing, and set_callback(id, None) takes it out
\* without running it.
C15_CallbackOnce == [][C15_Step]_vars

\* The callback of id "0" has run once, and a later frame with id "0" went
\* through the chain without running it.
C15_Witness ==
  \E t \in Threads :
    /\ th[t].op = "handle" /\ th[t].pc = "idle"
    /\ th[t].frame.id = "0"
    /\ InLog(t, "handle_any") /\ ~InLog(t, "callback")
    /\ cbruns[th[t].ep]["0"] = 1
    /\ "0" \notin callbacks[th[t].ep]

\* C16: a frame that cannot be classified (no type, or a payload the type
\* requires is missing) goes through handle_early, the handlers for every
\* packet, the callback of its id and handle_any as an untyped packet, and
\* handle() returns normally, for a HeimEndpoint and for a LoggingEndpoint.
C16_UnclassifiedPassesThrough ==
  \A t \in Threads :
    (th[t].op = "handle" /\ th[t].pc = "idle" /\ ~Wrapped(th[t].frame))
      => /\ th[t].res = "ok"
         /\ \E cb \in {<<>>, <<"callback">>} :
              th[t].log = <<"handle_early">> \o handlers[th[t].ep][Absent]
                            \o cb \o <<"handle_any">>

\* The packets written to the server since thread t began its call.
SentSince(t) == SubSeq(wire, th[t].w0 + 1, Len(wire))

\* C17: the dispatch of a ping-event sends exactly one packet, a ping-reply
\* whose time is the timestamp in the payload of the ping-event.
C17_PingAnswered ==
  \A t \in Threads :
    (Dispatched(t) /\ th[t].frame.type = "ping-event")
      => /\ Len(SentSince(t)) = 1
         /\ SentSince(t)[1].type = "ping-reply"
         /\ SentSince(t)[1].time = th[t].frame.time

\* The callbacks thread t is noted to call in the step.
NewHooks(t) == SubSeq(th'[t].hooks, Len(th[t].hooks) + 1, Len(th'[t].hooks))

C18_Step ==
  \A t \in Threads :
    (Len(th'[t].hooks) > Len(th[t].hooks)
       /\ \E i \in 1..Len(NewHooks(t)) : NewHooks(t)[i] \in {"handle_logout", "handle_close"})
      => NewHooks(t) = IF sessionUp[th[t].ep]
                       THEN <<"handle_logout", "handle_close">>
                       ELSE <<"handle_close">>

\* C18: a teardown (close or forced reconnect) calls handle_logout if and only
\* if a snapshot-event was dispatched since the last teardown, and calls it
\* before the handle_close of the same teardown.
C18_LogoutIffSession == [][C18_Step]_vars

\* close() tore down an established session: handle_logout, then
\* handle_close.
C18_Witness ==
  \E t \in Threads :
    /\ th[t].op = "close" /\ th[t].pc = "idle"
    /\ th[t].hooks = <<"handle_logout", "handle_close">>

C19_Step ==
  \A t \in Threads :
    LET r == th[t]  e == r.ep IN
    (r.pc = "handle_rest" /\ r.frame.type = "nick-reply" /\ th'[t].pc = "idle")
      => /\ eff_nickname'[e] = r.frame.to
         /\ NewHooks(t) = IF nickSeen[e] THEN <<>> ELSE <<"handle_nick_set">>

Entries(s) == {s[i] : i \in 1..Len(s)}

\* No entry is twice in list s.
NoDuplicate(s) == \A i, j \in 1..Len(s) : s[i] = s[j] => i = j

\* C20: after every UserList add/remove/remove_matching/clear, the roster
\* holds at most one entry per session_id, the session index names exactly
\* the current entries, and the by-id and by-name indexes hold under every
\* key exactly the current entries with that id resp. name, each once.
C20_RosterConsistent ==
  /\ \A i, j \in 1..Len(users.list) :
       users.list[i].session_id = users.list[j].session_id => i = j
  /\ DOMAIN users.by_session_id = {v.session_id : v \in Entries(users.list)}
  /\ \A k \in DOMAIN users.by_session_id :
       users.by_session_id[k] \in Entries(users.list)
         /\ users.by_session_id[k].session_id = k
  /\ \A a \in AgentIds :
       /\ NoDuplicate(Get(users.by_agent_id, a))
       /\ Entries(Get(users.by_agent_id, a)) = {v \in Entries(users.list) : v.id = a}
  /\ \A n \in Names :
       /\ NoDuplicate(Get(users.by_name, n))
       /\ Entries(Get(users.by_name, n)) = {v \in Entries(users.list) : v.name = n}

\* Two sessions share a name after one of them was added again under it: its
\* old name is still a key of the by-name index, with no entry.
C20_Witness ==
  /\ Len(users.list) = 2
  /\ \E n \in DOMAIN users.by_name : users.by_name[n] = <<>>
  /\ \E n \in DOMAIN users.by_name : Len(users.by_name[n]) = 2

\* C30: format_delta of an integer writes the sign and the non-zero day, hour,
\* minute and second counts: "0s" for 0, "1h" for 3600, "-1h 1m 1s" for -3661,
\* and for every d # 0 the text for -d is "-" followed at once by the text
\* for d.
C30_DeltaText ==
  delta.out # Absent
    => /\ delta.d = 0 => delta.out = "0s"
       /\ delta.d = 3600 => delta.out = "1h"
       /\ delta.d = -3661 => delta.out = "-1h 1m 1s"
       /\ delta.d < 0 => delta.out = "-" \o FormatDelta(-delta.d)

\* C28: every read of mention_list and of mention_set, in any order with the
\* writes, succeeds and returns the value derived from the content stored at
\* the time of the read.
C28_ReadsFresh ==
  /\ msg.op = "mention_list"
       => msg.res = "ok" /\ msg.rl = ScanMentions(msg.content)
  /\ msg.op = "mention_set"
       => msg.res = "ok" /\ msg.rs = MentionNames(ScanMentions(msg.content))

\* C29: mention_set is the set of the names of mention_list, each without its
\* at sign and normalized as norm_name normalizes; "hi @Bob, @Alice!" gives the
\* tokens (3, "@Bob"), (9, "@Alice") and the names "bob" and "alice".
C29_MentionSetNormalized ==
  /\ (msg.op = "mention_list" /\ msg.content = "hi @Bob, @Alice!")
       => msg.rl = <<[offset |-> 3, text |-> "@Bob"], [offset |-> 9, text |-> "@Alice"]>>
  /\ (msg.op = "mention_set" /\ msg.res = "ok")
       => msg.rs = {NormalizeNick(StripAt(msg.lv[i].text)) : i \in 1..Len(msg.lv)}

\* The ids of the stored messages.
Stored == DOMAIN tree.messages

\* How often id k is in the child lists, over all parents.
ChildEntries(k) ==
  Cardinality({<<p, i>> \in (DOMAIN tree.children) \X (1..MaxMsgId) :
                 i <= Len(tree.children[p]) /\ tree.children[p][i] = k})

\* C25: after every add, whatever the order of the batch and with repeated
\* ids, every child list is sorted ascending by id, holds no id twice and
\* holds only ids of stored messages.
C25_ChildListsSorted ==
  \A p \in DOMAIN tree.children :
    LET l == tree.children[p] IN
    /\ \A i, j \in 1..Len(l) : i < j => l[i] < l[j]
    /\ \A i \in 1..Len(l) : l[i] \in Stored

\* A batch that names message 2 before message 1, under the same parent,
\* left the child list in the order 1, 2.
C25_Witness ==
  /\ tree.inv
  /\ tree.n = 1
  /\ \E p \in DOMAIN tree.children : tree.children[p] = <<1, 2>>

\* C26: a message added under an id that is already stored replaces the
\* stored record, and the id stays in the child lists once: get(id) is the
\* message added last under that id, and every stored id is in exactly one
\* child list, once.
C26_ReplaceNoSecondEntry ==
  /\ \A k \in Stored : ChildEntries(k) = 1
  /\ tree.messages = tree.added

\* The ids added since the last clear, the smallest and the largest of them.
Added == DOMAIN tree.added
MinAdded == CHOOSE k \in Added : \A k2 \in Added : k <= k2
MaxAdded == CHOOSE k \in Added : \A k2 \in Added : k >= k2

\* C27: earliest() is a message with the smallest id added since the last
\* clear, latest() the message added last among those with the largest id,
\* and both are None exactly when nothing was added since the last clear.
C27_EarliestLatest ==
  /\ (Added = {}) = (tree.earliest = NoMessageRecord)
  /\ (Added = {}) = (tree.latest = NoMessageRecord)
  /\ Added # {}
       => /\ tree.earliest.id = MinAdded
          /\ tree.latest = tree.added[MaxAdded]

\* The largest id was added twice in one batch, and
\* latest() is the second record.
C27_Witness ==
  /\ tree.dup
  /\ tree.latest = tree.added[MaxMsgId]
  /\ tree.earliest.id < MaxMsgId

\* The names under which the by-name index holds a view of session k: the
\* names n for which for_name(n) returns the session.
NamesOf(k) ==
  {n \in DOMAIN users.by_name :
     \E j \in 1..Len(users.by_name[n]) : users.by_name[n][j].session_id = k}

\* The call of the session thread that has returned: handle(f) for a frame
\* of one of the types tps.
Handled(tps) ==
  /\ th[CallerA].op = "handle" /\ th[CallerA].pc = "idle"
  /\ th[CallerA].frame.type \in tps

\* C21: after the dispatch of a nick-event for a session of the roster the
\* session has the new name, for_name(new name) returns it and for_name of no
\* other name does; and the dispatch of a later who-reply, snapshot-event,
\* join-event or part-event raises no exception of the UserList and leaves
\* every session of the roster under its name, and only under it, in the
\* by-name index.
C21_NickEventReindexes ==
  /\ Handled({"nick-event"}) /\ th[CallerA].res = "ok"
       => LET k == th[CallerA].frame.sid IN
          /\ users.by_session_id[k].name = th[CallerA].frame.to
          /\ NamesOf(k) = {th[CallerA].frame.to}
  /\ Handled({"who-reply", "snapshot-event", "join-event", "part-event"})
       => /\ th[CallerA].res = "ok"
          /\ \A k \in DOMAIN users.by_session_id :
               NamesOf(k) = {users.by_session_id[k].name}

\* Every field named in pattern p is a field of view i with the pattern's
\* value.
Fits(i, p) ==
  /\ p.id # Absent => i.id = p.id
  /\ p.name # Absent => i.name = p.name
  /\ p.server_id # Absent => ("server_id" \in DOMAIN i /\ i.server_id = p.server_id)
  /\ p.server_era # Absent => ("server_era" \in DOMAIN i /\ i.server_era = p.server_era)

\* Roster B is roster A without the views that fit pattern p: the list and
\* every bucket of the three indexes hold the other views, in their order.
Removed(A, B, p) ==
  LET Other(i) == ~Fits(i, p)
      Buckets(X) == DOMAIN X.by_agent_id \cup DOMAIN X.by_name
  IN
  /\ B.list = SelectSeq(A.list, Other)
  /\ DOMAIN B.by_session_id = {k \in DOMAIN A.by_session_id : Other(A.by_session_id[k])}
  /\ \A k \in DOMAIN B.by_session_id : B.by_session_id[k] = A.by_session_id[k]
  /\ \A x \in Buckets(A) \cup Buckets(B) :
       /\ Get(B.by_agent_id, x) = SelectSeq(Get(A.by_agent_id, x), Other)
       /\ Get(B.by_name, x) = SelectSeq(Get(A.by_name, x), Other)

\* The pattern of the partition network-event f.
Partition(f) ==
  [id |-> Absent, name |-> Absent, server_id |-> f.server_id, server_era |-> f.server_era]

\* A step of SpecUsers in which handle_early gets a partition network-event.
C23_Step ==
  LET r == th[CallerA] IN
  (r.pc = "handle" /\ th'[CallerA].pc # "handle" /\ r.frame.type = "network-event"
     /\ r.frame.kind = "partition")
    => Removed(users, users', Partition(r.frame))

\* C23: remove_matching(pattern) removes exactly the views of which every
\* field named in the pattern has the pattern's value, from the list and from
\* every index, and leaves the others where they are; the dispatch of a
\* partition network-event removes exactly the views with its server_id and
\* server_era.
C23_RemovesExactlyMatching == [][C23_Step]_vars

\* The who commands on the wire with id k.
WhoSent(k) == {j \in 1..Len(wire) : wire[j].type = "who" /\ wire[j].id = k}

\* C24: from refresh_users() until the who-reply to its who command is
\* dispatched, exactly one who command with that id has been sent and the
\* roster is empty; after the dispatch of a who-reply the roster holds the
\* sessions of its listing.
C24_EmptyUntilWhoReply ==
  /\ users.await # Absent
       => /\ Cardinality(WhoSent(users.await)) = 1
          /\ users.list = <<>>
          /\ DOMAIN users.by_session_id = {}
  /\ Handled({"who-reply"}) /\ th[CallerA].res = "ok"
       => \A j \in 1..Len(th[CallerA].frame.views) :
            \E i \in 1..Len(users.list) :
              users.list[i].session_id = th[CallerA].frame.views[j].session_id

\* The names under which the by-name index of roster R holds a view of
\* session k.
NamesIn(R, k) ==
  {n \in DOMAIN R.by_name :
     \E j \in 1..Len(R.by_name[n]) : R.by_name[n][j].session_id = k}

\* The views of roster R by session: what for_session gives.
Current(R) == {R.by_session_id[k] : k \in DOMAIN R.by_session_id}

\* A step of SpecReaders in which a reader returns or add() returns.  The
\* reader's answer shows every session of the roster once, under the name
\* for_session gives and under no other; after add(v) the session of v is in
\* the bucket of v's name and in no other.
C22_Step ==
  LET a == th[CallerA]
      b == th[CallerB]
      out == th'[CallerB].frame.views
      v == a.frame.views[1]
  IN
  /\ (b.pc = "read" /\ th'[CallerB].pc = "idle")
       => /\ NoDuplicate(out)
          /\ b.op = "list" => Entries(out) = Current(users)
          /\ b.op = "for_name"
               => Entries(out) = {x \in Current(users) : x.name = b.frame.to}
          /\ b.op = "for_session"
               => IF th'[CallerB].res = "KeyError"
                  THEN /\ NamesIn(users, b.frame.sid) = {}
                       /\ \A x \in Entries(users.list) : x.session_id # b.frame.sid
                  ELSE /\ out[1] \in Entries(users.list)
                       /\ NamesIn(users, b.frame.sid) = {out[1].name}
  /\ (a.pc = "add_run" /\ th'[CallerA].pc = "idle")
       => /\ th'[CallerA].res = "ok"
          /\ users'.by_session_id[v.session_id] = v
          /\ NamesIn(users', v.session_id) = {v.name}

\* C22: a view added again under another name is replaced atomically for the
\* readers: no call of list(), for_session() or for_name() that runs next to
\* the add() sees the session under both names or under none, and when add()
\* returns the session is in the bucket of the new name only.
C22_AddAtomicForReaders == [][C22_Step]_vars

\* A reader has called while add() is between lines 514 and 515 of a view
\* whose session is known under another name: the session is in no bucket of
\* the by-name index and not in the list, and the reader waits for the lock.
C22_Witness ==
  /\ th[CallerB].pc = "read"
  /\ th[CallerA].pc = "add_run" /\ th[CallerA].i = 4
  /\ Len(th[CallerA].frame.views) = 2
  /\ th[CallerA].frame.views[1].name # th[CallerA].frame.views[2].name
  /\ NamesIn(users, th[CallerA].frame.views[1].session_id) = {}
  /\ users.lock = CallerA

\* The parents whose child list holds message k: the parents p for which
\* list(p) returns the message.
ListedUnder(k) == {p \in DOMAIN tree.children : Has(tree.children[p], k)}

\* C37: the parent index agrees with the stored records: every stored id is
\* in exactly one child list, the one keyed by the parent of the record that
\* get(id) returns, also after the id was added again with another parent.
C37_ParentIndexAgrees ==
  \A k \in Stored : ListedUnder(k) = {tree.messages[k].parent}

\* C38: with a non-empty log, earliest() is the record that
\* get(earliest().id) returns and latest() is the record that
\* get(latest().id) returns, also after the message with the smallest or the
\* largest id was added again.
C38_EndsAreStoredRecords ==
  Stored # {}
    => /\ tree.earliest = tree.messages[tree.earliest.id]
       /\ tree.latest = tree.messages[tree.latest.id]


\* The threads that are in _make_connection for endpoint e (lines 934-935,
\* 996), and those that made their last call of it and have not yet run the
\* finally clause that installs its result (lines 937-942, 998-1003).
Establishing(e) ==
  {t \in Threads : th[t].ep = e /\ th[t].pc \in {"connect_try", "reconn_make"}}
Completing(e) ==
  {t \in Threads : th[t].ep = e /\ th[t].pc \in {"connect_fin", "reconn_fin"}}

\* C34: per endpoint at most one establishment is in flight at any time,
\* whoever began it (connect, reconnect, a forced reconnect, next to close),
\* and while it is in flight and until its result is installed no Transport
\* is installed, so that the completion overwrites none.
C34_OneEstablishmentInFlight ==
  \A e \in Endpoints :
    /\ Cardinality(Establishing(e) \cup Completing(e)) <= 1
    /\ (Establishing(e) \cup Completing(e)) # {}
         => connecting[e] /\ connection[e] = None

\* A forced reconnect has made a Transport and is about to install it while
\* the connect() of a reconnect() waits for it on the monitor.
C34_Witness ==
  \E t, u \in Threads :
    /\ th[t].pc = "reconn_fin" /\ th[t].conn # None
    /\ th[u].op = "reconnect" /\ th[u].pc = "connect_wait"
    /\ connection[th[t].ep] = None

\* The threads that hold Transport c in a local variable of _connect,
\* _reconnect or _disconnect and will install it or close it (lines 934-939,
\* 996-1000, 964-969).
InHand(c) ==
  {t \in Threads :
     th[t].conn = c /\ th[t].pc \in DisconnectPcs \cup {"connect_fin", "reconn_fin"}}

\* C35: no Transport is leaked: every Transport made for an endpoint is the
\* one installed, has been closed, or is in the hands of the call that is
\* installing or closing it; so is the Transport that a forced reconnect
\* discarded.
C35_NoTransportLeaked ==
  \A c \in Made :
    \/ connection[transport[c].ep] = c
    \/ transport[c].state = "closed"
    \/ InHand(c) # {}


\* The positions of a thread inside _reconnect (lines 979-1003).
ReconnectPcs == {"reconn", "reconn_wait", "reconn_make", "reconn_fin"}

\* C32: a forced reconnect is a one-shot recovery: every step of a thread
\* inside _reconnect leaves the manager's collection, the managers of the
\* endpoints, the set of endpoints made and the record of final
\* notifications as they are (its notification is not final: nothing is
\* removed, nothing respawned), and the one call of _make_connection is
\* followed by the finally clause, whatever retry_count is.
C32_Step ==
  \A t \in Threads :
    LET r == th[t]  q == th'[t] IN
    (r.pc \in ReconnectPcs /\ q # r)
      => /\ bots' = bots /\ manager' = manager /\ exists' = exists
         /\ finalSeen' = finalSeen
         /\ \A u \in Threads \ {t} : th'[u] = th[u]
         /\ r.pc = "reconn_make" => q.pc = "reconn_fin" /\ q.made = r.made + 1
         /\ r.pc # "reconn_make" => q.made = r.made /\ q.pc # "reconn_fin"
         /\ q.notes \in {r.notes, r.notes + 1}
         /\ q.made <= q.recon

C32_ForcedReconnectOneShot == [][C32_Step]_vars

\* The run thread of a held endpoint made a forced reconnect that failed: one
\* establishment attempt, one notification, and the endpoint is still held.
C32_Witness ==
  /\ th[1].op = "main" /\ th[1].pc = "reconn_fin" /\ th[1].conn = None
  /\ th[1].recon = 1 /\ th[1].made = 1 /\ th[1].notes = 1
  /\ retry_count >= 1
  /\ manager[1] /\ InBots(1) /\ ~finalSeen[1]

\* shutdown() has returned: every close() it called has completed.
ShutdownDone ==
  /\ th[CallerB].op = "shutdown" /\ th[CallerB].pc = "idle"
  /\ th[CallerB].n = 1 /\ th[CallerB].res = "ok"

\* C39: shutdown terminates supervision: once shutdown() has returned, the
\* manager holds no endpoint, neither one it held before nor a replacement,
\* so that join() returns, also with respawn_crashed on and endpoints of the
\* managed class.
C39_ShutdownTerminates == ShutdownDone => bots = <<>>

\* The positions at which a thread enters the monitor of its endpoint
\* (with self._conncond, lines 922, 937, 957, 979, 998, 1045).
MonitorPcs ==
  {"connect", "connect_wait", "connect_fin", "disc", "disc_wait", "reconn",
   "reconn_wait", "reconn_fin", "getconn", "getconn_wait"}

\* The endpoint whose lock the next step of thread t takes: its own
\* endpoint's, or the new bot's at the end of swap_bots (line 2371).
EndpointWanted(t) ==
  IF th[t].pc \in MonitorPcs THEN th[t].ep
  ELSE IF th[t].pc = "swap_new" THEN th[t].new
  ELSE None

\* Thread t is blocked on the lock of endpoint e, which another thread holds.
WaitsForEndpoint(t, e) == EndpointWanted(t) = e /\ lock[e] \notin {None, t}

\* Thread t is blocked on the manager lock, which another thread holds.
WaitsForManager(t) ==
  /\ \/ th[t].pc \in {"hc_check", "hc_make", "swap_remove", "hc_remove", "start",
                      "join", "shutdown"}
     \/ th[t].pc = "sd_loop" /\ th[t].todo = <<>>
  /\ mgrLock \notin {None, t}

\* C40: the endpoint locks and the manager lock cannot deadlock: in no state
\* a thread that holds the manager lock waits for an endpoint lock whose
\* holder waits for the manager lock.
C40_NoLockCycle ==
  \A t, u \in Threads, e \in Endpoints :
    ~(/\ mgrLock = t /\ WaitsForEndpoint(t, e)
      /\ lock[e] = u /\ WaitsForManager(u))

\* Both locks are contended while one thread holds them nested: the thread
\* that closes endpoint e is inside swap_bots with the endpoint's lock and the
\* manager lock, a second thread waits for the endpoint's lock and a third
\* for the manager lock.
C40_Witness ==
  \E t, u, v \in Threads, e \in Endpoints :
    /\ lock[e] = u /\ mgrLock = u
    /\ WaitsForEndpoint(t, e)
    /\ WaitsForManager(v)

\* The positions of a thread blocked in wait() on the monitor (lines 927,
\* 959, 984, 1047).
WaitPcs == {"connect_wait", "disc_wait", "reconn_wait", "getconn_wait"}

\* get_connection() leaves its wait loop only when no connect is in flight
\* (lines 1046-1048).
C31_Step ==
  \A t \in Threads :
    LET r == th[t]  q == th'[t] IN
    (r.pc \in {"getconn", "getconn_wait"} /\ q.pc \notin {"getconn", "getconn_wait"})
      => ~connecting[r.ep]

\* C31: no caller blocks forever on the connection monitor: a connect or
\* forced reconnect in flight, successful or failing, leads to a state with
\* the connecting flag cleared and no thread left waiting un-notified; every
\* thread blocked in wait() inside connect(), close(), a forced reconnect or
\* get_connection() returns to its caller in the end; and get_connection()
\* does not return while a connect is in flight.
C31_NoCallerBlocksForever ==
  /\ \A e \in Endpoints : connecting[e] ~> (~connecting[e] /\ waiters[e] = {})
  /\ \A t \in Threads : (th[t].pc \in WaitPcs) ~> (th[t].pc = "idle")
  /\ [][C31_Step]_vars

\* A thread that waited in close() for a connect in flight, which failed, has
\* returned, and so has one that waited in get_connection().
C31_Witness ==
  /\ ~connecting[1] /\ waiters[1] = {}
  /\ \E t \in Callers :
       /\ th[t].pc = "idle" /\ th[t].waited /\ th[t].op \in {"close", "send_raw"}
       /\ \E u \in Callers : th[u].pc = "idle" /\ th[u].res = "WebSocketException"

\* The calls that have obtained a command id: of send_packet, and of handle()
\* whose built-in handler sends.
Senders == {t \in Threads : th[t].op \in {"send_packet", "handle"} /\ th[t].pkt.id # Absent}

\* The number that a command id is the str() of.
IdNumber(s) == CHOOSE i \in 0..MaxCalls : ToString(i) = s

\* No two calls hold the same id, the ids handed out are str(0), str(1), ...
\* without a gap, and the callbacks are registered under the ids of the
\* packets of the calls that gave one.
C36_Unique ==
  /\ \A t, u \in Senders : t # u => th[t].pkt.id # th[u].pkt.id
  /\ {th[t].pkt.id : t \in Senders} = {ToString(i) : i \in 0..(Cardinality(Senders) - 1)}
  /\ callbacks[1] =
       {th[t].pkt.id : t \in {u \in Senders : /\ th[u].pkt.type = "nick"
                                              /\ th[u].pc \notin {"send_count", "send_cb"}}}
  /\ \A i \in 1..Len(wire) :
       \E t \in Senders : wire[i].id = th[t].pkt.id /\ wire[i].type = th[t].pkt.type

\* The call that obtains an id obtains one larger than every id handed out
\* before, and a call keeps its id.
C36_Step ==
  \A t \in Threads :
    LET r == th[t]  q == th'[t] IN
    /\ (t \notin Senders /\ q.pkt.id # Absent /\ q # r)
         => \A u \in Senders : IdNumber(q.pkt.id) > IdNumber(th[u].pkt.id)
    /\ t \in Senders => q.pkt = r.pkt

\* C36: command ids are unique per endpoint under concurrency: whatever the
\* interleaving of the send_packet calls of several threads and of a send
\* from a handler, no two calls obtain the same id, the ids are handed out in
\* strictly increasing order, and a callback is registered under the id that
\* its packet carries.
C36_IdsUnique == []C36_Unique /\ [][C36_Step]_vars

\* Two calls overlapped: a caller got the first id, under which its callback
\* is registered, and its packet was sent after the ping-reply that the
\* handler sent with the second id.
C36_Witness ==
  /\ Cardinality(Senders) = 2
  /\ th[1].pkt.id = "1"
  /\ Len(wire) = 2 /\ wire[1].id = "1" /\ wire[2].id = "0"
  /\ th[CallerA].pkt.type = "nick" /\ th[CallerA].pkt.id = "0"
  /\ callbacks[1] = {"0"}

\* Endpoint e is not connected: no Transport is installed and no connect is
\* in flight.
NotConnected(e) == connection[e] = None /\ ~connecting[e]

\* C33: whenever the endpoint is not connected its session_id and its
\* eff_nickname are None, also when close() runs next to the dispatch of a
\* hello-event or nick-reply that was received before.
C33_NoIdentityWhenDisconnected ==
  \A e \in Endpoints :
    NotConnected(e) => session_id[e] = Absent /\ eff_nickname[e] = Absent

====
